---- MODULE Spec2Model ----
(***************************************************************************)
(* A model of memora: the RESP codec (lexer, parser, encoder, framed       *)
(* transport), the command model, the per-connection session and the       *)
(* server actor that owns the string store.                                *)
(*                                                                         *)
(* Text is modelled as a sequence of one-character strings, so that the    *)
(* lexer, the parser and the encoder work on bytes as the code does.       *)
(***************************************************************************)
EXTENDS Integers, Sequences, FiniteSets, TLC

VARIABLES
    \* ---- framed transport (one connection, byte level) ----
    sent,       \* the values the peer encoded onto the stream, in order
    wire,       \* bytes written by the peer and not yet read from the socket
    buf,        \* the transport's read buffer (BytesMut)
    readable,   \* FramedRead's is_readable flag: decode is due on buf
    yielded,    \* the values decode has returned so far
    fstate,     \* "open", "error" (decode returned Err), "panic" (decode aborted),
                \* "closed" (the stream ended)
    last,       \* the last decode call: its input, its outcome, what it left
    eof,        \* "no"; "fin": the peer has closed; "seen": the socket has read 0 bytes
    nread,      \* how many bytes the socket has read so far
    \* ---- server (value level) ----
    now,        \* the wall clock (Utc::now()), in milliseconds
    ticks,      \* how many times the clock has advanced
    actor,      \* the task running Memora::start: "starting" (in role.start()), "running"
                \* (in its loop), "failed" (it returned an error) or "panicked"
    string,     \* Memora.string: the StringStore
    chan,       \* the mpsc request channel, oldest first
    sess,       \* per session: its position in Session::run
    oneshot,    \* per session: the state of its current reply channel
    ncmd,       \* per session: how many values its connection has yielded
    conv,       \* per session: the error of its last Command::try_from, "" when Ok
    out,        \* per session: the replies written on its connection
    done,       \* history: the last request the actor took from the channel, its outcome
    lastSet,    \* history: per key, the last SET the actor executed on it, and the
                \* expiry of the entry it replaced
    \* ---- role ----
    role,       \* Memora.role: the Master or the Replica the server was built with
    hs,         \* the replica's handshake with its master: Replica::start
    \* ---- command conversion and execution, one value at a time ----
    cmdcall,    \* the value handed to Command::try_from, and what became of it
    \* ---- the request channel under load (sessions counted by position) ----
    pool,       \* how many sessions are at each position of Session::handle_command,
                \* how many requests the channel holds
    \* ---- the codec as functions: one value or one byte string at a time ----
    pcall,      \* the value encoded or the bytes parsed, and what was returned
    \* ---- dispatch: the CommandHandlerInvoker ----
    registry,   \* its invokers, the registrations so far (history), the last call
    \* ---- the write side of the connections ----
    sendfail    \* history, per session: the command whose reply conn.send failed to
                \* write last, 0 when none did

codecVars == <<sent, wire, buf, readable, yielded, fstate, last, eof, nread>>
serverVars == <<now, ticks, actor, string, chan, sess, oneshot, ncmd, conv, out, done, lastSet>>
roleVars == <<role, hs>>
callVars == <<cmdcall>>
poolVars == <<pool>>
pureVars == <<pcall>>
dispatchVars == <<registry>>
ioVars == <<sendfail>>
vars == <<sent, wire, buf, readable, yielded, fstate, last, eof, nread,
          now, ticks, actor, string, chan, sess, oneshot, ncmd, conv, out, done, lastSet,
          role, hs, cmdcall, pool, pcall, registry, sendfail>>

-----------------------------------------------------------------------------
(* Characters *)

CR == "\r"
LF == "\n"
Digits == <<"0", "1", "2", "3", "4", "5", "6", "7", "8", "9">>
UpperChars == <<"A", "B", "C", "D", "E", "F", "G", "H", "I", "J", "K", "L", "M",
                "N", "O", "P", "Q", "R", "S", "T", "U", "V", "W", "X", "Y", "Z">>
LowerChars == <<"a", "b", "c", "d", "e", "f", "g", "h", "i", "j", "k", "l", "m",
                "n", "o", "p", "q", "r", "s", "t", "u", "v", "w", "x", "y", "z">>
Range(f) == {f[i] : i \in DOMAIN f}
IsDigit(c) == c \in Range(Digits)
IsAlpha(c) == c \in Range(UpperChars) \cup Range(LowerChars)
DigitVal(c) == (CHOOSE i \in DOMAIN Digits : Digits[i] = c) - 1

\* u8::to_ascii_lowercase, as eq_ignore_ascii_case applies it to both sides
ToLower(c) ==
    IF c \in Range(UpperChars)
    THEN LowerChars[CHOOSE i \in DOMAIN UpperChars : UpperChars[i] = c]
    ELSE c
LowerStr(s) == [i \in DOMAIN s |-> ToLower(s[i])]
\* a faulty comparison, which tells the cases apart
eq_exact_case(a, b) == a = b

\* str::eq_ignore_ascii_case
eq_ignore_ascii_case(a, b) == LowerStr(a) = LowerStr(b)

RECURSIVE Concat(_)
Concat(ss) == IF ss = <<>> THEN <<>> ELSE Head(ss) \o Concat(Tail(ss))

\* decimal text of a natural number, of a signed integer (Display for usize, i64)
RECURSIVE NatToStr(_)
NatToStr(n) == IF n < 10 THEN <<Digits[n + 1]>> ELSE NatToStr(n \div 10) \o <<Digits[(n % 10) + 1]>>
IntToStr(i) == IF i < 0 THEN <<"-">> \o NatToStr(-i) ELSE NatToStr(i)
\* the number a run of decimal digits denotes
RECURSIVE DigitsToNat(_)
DigitsToNat(s) == IF s = <<>> THEN 0 ELSE 10 * DigitsToNat(SubSeq(s, 1, Len(s) - 1)) + DigitVal(s[Len(s)])

-----------------------------------------------------------------------------
(* resp::Value.  Every value is a record of the same shape. *)

MkValue(t, s, n, a) == [t |-> t, s |-> s, n |-> n, a |-> a]
Simple(s) == MkValue("Simple", s, 0, <<>>)
Bulk(s) == MkValue("Bulk", s, 0, <<>>)
NullBulk == MkValue("NullBulk", <<>>, 0, <<>>)
NullStr == MkValue("Null", <<>>, 0, <<>>)
IntV(i) == MkValue("Int", <<>>, i, <<>>)
Array(a) == MkValue("Array", <<>>, 0, a)
NoValue == MkValue("none", <<>>, 0, <<>>)

\* Value::as_str / StringValue::as_str: [some, s]
as_str(v) ==
    IF v.t \in {"Simple", "Bulk"} THEN [some |-> TRUE, s |-> v.s] ELSE [some |-> FALSE, s |-> <<>>]

-----------------------------------------------------------------------------
(* resp::Token: the lexer.  A token is [k, n, s, p]: its kind, the integer  *)
(* or the text it carries and the position after it.  k = "eof" when the    *)
(* source is exhausted, "err" when no token matches.                        *)

Tok(k, n, s, p) == [k |-> k, n |-> n, s |-> s, p |-> p]

\* #[logos(skip r"[\r\n]+")]
RECURSIVE SkipFiller(_, _)
SkipFiller(src, p) == IF p <= Len(src) /\ src[p] \in {CR, LF} THEN SkipFiller(src, p + 1) ELSE p

\* the end (exclusive) of the longest run of bytes satisfying digit/alpha from p
RECURSIVE DigitRunEnd(_, _)
DigitRunEnd(src, p) == IF p <= Len(src) /\ IsDigit(src[p]) THEN DigitRunEnd(src, p + 1) ELSE p
RECURSIVE AlphaRunEnd(_, _)
AlphaRunEnd(src, p) == IF p <= Len(src) /\ IsAlpha(src[p]) THEN AlphaRunEnd(src, p + 1) ELSE p

\* -?(?:0|[1-9]\d*) with its digits in src[d..e-1]: no leading zero, so a
\* "0" is a token of its own
IntTokenTo(src, d, e, sign) == Tok("Int", sign * DigitsToNat(SubSeq(src, d, e - 1)), <<>>, e)
IntToken(src, d, sign) ==
    IntTokenTo(src, d, IF src[d] = "0" THEN d + 1 ELSE DigitRunEnd(src, d), sign)
\* [a-zA-Z]+ in src[p..e-1]
StrTokenTo(src, p, e) == Tok("Str", 0, SubSeq(src, p, e - 1), e)

\* the token that starts at p, a position past the skipped filler
LexAt(src, p) ==
    IF p > Len(src) THEN Tok("eof", 0, <<>>, p)
    ELSE CASE src[p] = "*" -> Tok("Star", 0, <<>>, p + 1)
           [] src[p] = "$" -> Tok("Dollar", 0, <<>>, p + 1)
           [] src[p] = "+" -> Tok("Plus", 0, <<>>, p + 1)
           [] IsDigit(src[p]) -> IntToken(src, p, 1)
           [] src[p] = "-" /\ p + 1 <= Len(src) /\ IsDigit(src[p + 1]) -> IntToken(src, p + 1, -1)
           [] IsAlpha(src[p]) -> StrTokenTo(src, p, AlphaRunEnd(src, p))
           [] OTHER -> Tok("err", 0, <<>>, p)

\* Lexer::next from position p0
NextToken(src, p0) == LexAt(src, SkipFiller(src, p0))

-----------------------------------------------------------------------------
(* resp::parser::Parser.  A result is [k, v, p, e, n]: k = "val" (a value   *)
(* v, the lexer now at p), "none" (Ok(None)), "err" (Err(e), n the          *)
(* offending length) or "panic" (the call aborted).  Each step of a         *)
(* function that takes a token is an operator of that token.                *)

Res(k, v, p, e, n) == [k |-> k, v |-> v, p |-> p, e |-> e, n |-> n]
ResNone(p) == Res("none", NoValue, p, "", 0)
ResErr(p, e, n) == Res("err", NoValue, p, e, n)

\* Parser::try_next: the next token; a lexer error (k = "err") is InvalidToken
try_next(src, p) == NextToken(src, p)

\* impl TryInto<String> for Token: [ok, s]
TokenIntoString(t) ==
    CASE t.k = "Int" -> [ok |-> TRUE, s |-> IntToStr(t.n)]
      [] t.k = "Str" -> [ok |-> TRUE, s |-> t.s]
      [] OTHER -> [ok |-> FALSE, s |-> <<>>]

\* a faulty parse_bulk, which returns the payload as a simple string
parse_bulk_str_simple(l, t, str) ==
    IF ~str.ok THEN ResErr(t.p, "InvalidToken", 0)
    ELSE IF Len(str.s) # l.n THEN ResNone(t.p)
    ELSE Res("val", Simple(str.s), t.p, "", 0)

\* a faulty parse_bulk, for which a payload of another length is an error
parse_bulk_str_strict(l, t, str) ==
    IF ~str.ok THEN ResErr(t.p, "InvalidToken", 0)
    ELSE IF Len(str.s) # l.n THEN ResErr(t.p, "InvalidLength", l.n)
    ELSE Res("val", Bulk(str.s), t.p, "", 0)

\* parse_bulk, once the length l and the payload token t are read
parse_bulk_str(l, t, str) ==
    IF ~str.ok THEN ResErr(t.p, "InvalidToken", 0)
    ELSE IF Len(str.s) # l.n THEN ResNone(t.p)
    ELSE Res("val", Bulk(str.s), t.p, "", 0)
parse_bulk_payload(l, t) ==
    IF t.k = "eof" THEN ResNone(t.p) ELSE parse_bulk_str(l, t, TokenIntoString(t))
\* parse_bulk, once the length token l is read
parse_bulk_len(src, l) ==
    IF l.k = "eof" THEN ResNone(l.p)
    ELSE IF l.k # "Int" THEN ResErr(l.p, "InvalidToken", 0)
    ELSE IF l.n = -1 THEN Res("val", NullBulk, l.p, "", 0)
    ELSE IF l.n < 0 THEN ResErr(l.p, "InvalidLength", l.n)
    ELSE parse_bulk_payload(l, try_next(src, l.p))
parse_bulk(src, p) == parse_bulk_len(src, try_next(src, p))

RECURSIVE parse_one(_, _)
RECURSIVE parse_elems(_, _, _, _)

\* (0usize..length).map(|_| self.parse_one()).collect(): the n children left,
\* stopping at the first one, r, that is not a complete value
parse_elems_next(src, n, acc, r) ==
    IF r.k # "val" THEN r ELSE parse_elems(src, r.p, n - 1, Append(acc, r.v))
parse_elems(src, p, n, acc) ==
    IF n = 0 THEN Res("val", Array(acc), p, "", 0)
    ELSE parse_elems_next(src, n, acc, parse_one(src, p))

\* a faulty parse_array, which takes the length -1 for an array of no elements
parse_array_len_null(src, l) ==
    IF l.k = "eof" THEN ResNone(l.p)
    ELSE IF l.k # "Int" THEN ResErr(l.p, "InvalidToken", 0)
    ELSE IF l.n = -1 THEN Res("val", Array(<<>>), l.p, "", 0)
    ELSE IF l.n < 0 THEN ResErr(l.p, "InvalidLength", l.n)
    ELSE parse_elems(src, l.p, l.n, <<>>)

\* parse_array, once the length token l is read
parse_array_len(src, l) ==
    IF l.k = "eof" THEN ResNone(l.p)
    ELSE IF l.k # "Int" THEN ResErr(l.p, "InvalidToken", 0)
    ELSE IF l.n < 0 THEN ResErr(l.p, "InvalidLength", l.n)
    ELSE parse_elems(src, l.p, l.n, <<>>)
parse_array(src, p) == parse_array_len(src, try_next(src, p))

\* the Token::Plus arm of parse_one, once the next token t is read
parse_simple_tok(t) ==
    IF t.k = "eof" THEN ResNone(t.p)
    ELSE IF t.k # "Str" THEN ResErr(t.p, "InvalidToken", 0)
    ELSE Res("val", Simple(t.s), t.p, "", 0)
parse_simple(src, p) == parse_simple_tok(try_next(src, p))

\* parse_one, once the first token t is read; an Int or a Str reaches todo!()
parse_one_tok(src, t) ==
    CASE t.k = "eof" -> ResNone(t.p)
      [] t.k = "err" -> ResErr(t.p, "InvalidToken", 0)
      [] t.k = "Star" -> parse_array(src, t.p)
      [] t.k = "Dollar" -> parse_bulk(src, t.p)
      [] t.k = "Plus" -> parse_simple(src, t.p)
      [] OTHER -> Res("panic", NoValue, t.p, "todo", 0)
parse_one(src, p) == parse_one_tok(src, try_next(src, p))

\* Parser::parse / Value::parse: [k, v, rest, e, n], rest the lexer's remainder
parse_rest(src, r) ==
    [k |-> r.k, v |-> r.v, e |-> r.e, n |-> r.n,
     rest |-> IF r.k = "val" THEN SubSeq(src, r.p, Len(src)) ELSE <<>>]
parse(src) == parse_rest(src, parse_one(src, 1))

-----------------------------------------------------------------------------
(* The encoder *)

\* a faulty encoder, which writes no CRLF between the length and the payload
StringValue_encode_joined(v) ==
    CASE v.t = "Simple" -> <<"+">> \o v.s
      [] v.t = "Bulk" -> <<"$">> \o NatToStr(Len(v.s)) \o v.s
      [] OTHER -> <<"$", "-", "1">>

\* StringValue::encode
StringValue_encode(v) ==
    CASE v.t = "Simple" -> <<"+">> \o v.s
      [] v.t = "Bulk" -> <<"$">> \o NatToStr(Len(v.s)) \o <<CR, LF>> \o v.s
      [] OTHER -> <<"$", "-", "1">>

RECURSIVE encode(_)
encode(v) ==
    CASE v.t = "Array" ->
            <<"*">> \o NatToStr(Len(v.a)) \o <<CR, LF>> \o Concat([i \in DOMAIN v.a |-> encode(v.a[i])])
      [] v.t = "Int" -> IntToStr(v.n) \o <<CR, LF>>
      [] OTHER -> StringValue_encode(v) \o <<CR, LF>>

-----------------------------------------------------------------------------
(* RespFramer::decode on a buffer: [k, v, buf, e].  The buffer is advanced  *)
(* by len - remainder.len() when a value is returned and left alone         *)
(* otherwise.                                                               *)

decode_advance(b, r) ==
    [k |-> r.k, v |-> r.v, e |-> r.e,
     buf |-> IF r.k = "val" THEN SubSeq(b, (Len(b) - Len(r.rest)) + 1, Len(b)) ELSE b]
decode(b) == decode_advance(b, parse(b))

-----------------------------------------------------------------------------
(* The framed transport: Framed<TcpStream, RespFramer> reading one          *)
(* connection.  The peer encodes values onto the stream; the socket hands   *)
(* the bytes over in reads of any size; decode runs on the buffer after     *)
(* every read and again after every value it returns.                       *)

\* the longest array, the longest stream (in values) the peer is made to send
MaxArrayLen == 2
MaxFrames == 2

OK == <<"O", "K">>
CodecLeaves ==
    {Simple(OK), Simple(<<"a">>), Bulk(<<>>), Bulk(OK), Bulk(<<"a">>), Bulk(<<"7">>),
     NullBulk, IntV(5)}
SeqsUpTo(S, n) == UNION {[1..m -> S] : m \in 0..n}
\* the values the peer draws its first value from, and its later values from
EncodableValues == CodecLeaves \cup {Array(a) : a \in SeqsUpTo(CodecLeaves, MaxArrayLen)}
PipelinedValues == {Simple(OK), Array(<<Bulk(<<"a">>)>>)}

\* a command, for the session that reads the connection
CommandValues == {Array(<<Simple(<<"G", "E", "T">>), Simple(OK)>>)}

\* upto: how many bytes of the stream the buffer reached to at the call
IdleCall ==
    [k |-> "idle", input |-> <<>>, v |-> NoValue, e |-> "", left |-> <<>>, pre |-> 0, upto |-> 0]

CodecInit ==
    /\ sent = <<>>
    /\ wire = <<>>
    /\ buf = <<>>
    /\ readable = FALSE
    /\ yielded = <<>>
    /\ fstate = "open"
    /\ last = IdleCall
    /\ eof = "no"
    /\ nread = 0

\* the peer writes one more value: Value::encode onto the stream
PeerSend(v) ==
    /\ fstate = "open"
    /\ eof = "no"
    /\ Len(sent) < MaxFrames
    /\ v \in (IF sent = <<>> THEN EncodableValues \cup CommandValues ELSE PipelinedValues)
    /\ sent' = Append(sent, v)
    /\ wire' = wire \o encode(v)
    /\ UNCHANGED <<buf, readable, yielded, fstate, last, eof, nread>>
    /\ UNCHANGED <<serverVars, roleVars, callVars, poolVars, pureVars, dispatchVars, ioVars>>

\* FramedRead: decode returned None, so the socket is read: n bytes arrive
SocketRead(n) ==
    /\ fstate = "open"
    /\ ~readable
    /\ n \in 1..Len(wire)
    /\ buf' = buf \o SubSeq(wire, 1, n)
    /\ wire' = SubSeq(wire, n + 1, Len(wire))
    /\ readable' = TRUE
    /\ nread' = nread + n
    /\ UNCHANGED <<sent, yielded, fstate, last, eof>>
    /\ UNCHANGED <<serverVars, roleVars, callVars, poolVars, pureVars, dispatchVars, ioVars>>

\* the peer closes its end, having written all of its last value or k bytes
\* less
PeerClose(k) ==
    /\ fstate = "open"
    /\ eof = "no"
    /\ k \in 0..Len(wire)
    /\ wire' = SubSeq(wire, 1, Len(wire) - k)
    /\ eof' = "fin"
    /\ UNCHANGED <<sent, buf, readable, yielded, fstate, last, nread>>
    /\ UNCHANGED <<serverVars, roleVars, callVars, poolVars, pureVars, dispatchVars, ioVars>>

\* FramedRead: the socket reads 0 bytes; decode_eof is due
SocketEof ==
    /\ fstate = "open"
    /\ ~readable
    /\ wire = <<>>
    /\ eof = "fin"
    /\ eof' = "seen"
    /\ readable' = TRUE
    /\ UNCHANGED <<sent, wire, buf, yielded, fstate, last, nread>>
    /\ UNCHANGED <<serverVars, roleVars, callVars, poolVars, pureVars, dispatchVars, ioVars>>

\* FramedRead: one call of RespFramer::decode on the buffer, r what it
\* returned; at the end of the stream it is decode_eof that calls decode, and
\* None is the end of the stream, or an error when bytes remain
Decoded(r) ==
    /\ last' = [k |-> r.k, input |-> buf, v |-> r.v, e |-> r.e, left |-> r.buf,
                pre |-> Len(yielded), upto |-> nread]
    /\ buf' = r.buf
    /\ yielded' = IF r.k = "val" THEN Append(yielded, r.v) ELSE yielded
    /\ readable' = (r.k = "val")
    /\ fstate' = CASE r.k = "err" -> "error"
                    [] r.k = "panic" -> "panic"
                    [] r.k = "none" /\ eof = "seen" -> IF buf = <<>> THEN "closed" ELSE "error"
                    [] OTHER -> "open"
FramedDecode ==
    /\ fstate = "open"
    /\ readable
    /\ Decoded(decode(buf))
    /\ UNCHANGED <<sent, wire, eof, nread>>
    /\ UNCHANGED <<serverVars, roleVars, callVars, poolVars, pureVars, dispatchVars, ioVars>>

\* what repeated decode yields when the whole stream b is in the buffer at once
RECURSIVE DecodeAll(_, _)
DecodeRest(acc, r) == IF r.k = "val" THEN DecodeAll(r.buf, Append(acc, r.v)) ELSE acc
DecodeAll(b, acc) == DecodeRest(acc, decode(b))

-----------------------------------------------------------------------------
(* server::cmd: the command model *)

s_ping == <<"p", "i", "n", "g">>
s_echo == <<"e", "c", "h", "o">>
s_set == <<"s", "e", "t">>
s_get == <<"g", "e", "t">>
s_info == <<"i", "n", "f", "o">>
s_ex == <<"e", "x">>
s_px == <<"p", "x">>
s_exat == <<"e", "x", "a", "t">>
s_pxat == <<"p", "x", "a", "t">>
s_default == <<"d", "e", "f", "a", "u", "l", "t">>
s_replication == <<"r", "e", "p", "l", "i", "c", "a", "t", "i", "o", "n">>

NoExpiry == [some |-> FALSE, kind |-> "", unit |-> "", n |-> 0]
\* Some(Expiry::Time(Time::Seconds(n))), Some(Expiry::Unix(Time::Millis(n))), ...
SomeExpiry(kind, unit, n) == [some |-> TRUE, kind |-> kind, unit |-> unit, n |-> n]

\* Command: c the variant; key the key, the message or the section; opt whether
\* the optional message or section is present
MkCommand(c, key, value, opt, expiry) ==
    [c |-> c, key |-> key, value |-> value, opt |-> opt, expiry |-> expiry]
NoCommand == MkCommand("none", <<>>, <<>>, FALSE, NoExpiry)

CmdOk(cmd) == [ok |-> TRUE, cmd |-> cmd, e |-> "", arg |-> NoValue]
CmdErr(e, arg) == [ok |-> FALSE, cmd |-> NoCommand, e |-> e, arg |-> arg]

\* str::parse::<u64>: an optional '+', then one or more decimal digits: [ok, n]
ParseU64(s) ==
    LET d == IF s # <<>> /\ s[1] = "+" THEN Tail(s) ELSE s IN
    IF d # <<>> /\ \A i \in DOMAIN d : IsDigit(d[i])
    THEN [ok |-> TRUE, n |-> DigitsToNat(d)]
    ELSE [ok |-> FALSE, n |-> 0]

IsStr(v) == v.t \in {"Simple", "Bulk", "NullBulk", "Null"}
\* values.next(): the i-th element when there is one
HasArg(a, i) == i <= Len(a)
\* msg.as_str().unwrap_or("")
StrOrEmpty(v) == IF as_str(v).some THEN as_str(v).s ELSE <<>>

try_from_set(a) ==
    IF ~HasArg(a, 2) THEN CmdErr("Set.MissingKey", NoValue)
    ELSE IF ~as_str(a[2]).some THEN CmdErr("InvalidArgument", a[2])
    ELSE IF ~HasArg(a, 3) THEN CmdErr("Set.MissingValue", NoValue)
    ELSE IF ~as_str(a[3]).some THEN CmdErr("InvalidArgument", a[3])
    ELSE IF ~HasArg(a, 4) THEN CmdOk(MkCommand("Set", as_str(a[2]).s, as_str(a[3]).s, FALSE, NoExpiry))
    ELSE IF ~as_str(a[4]).some THEN CmdErr("InvalidArgument", a[4])
    ELSE IF ~HasArg(a, 5) THEN CmdErr("Set.MissingExpiry", NoValue)
    ELSE IF ~as_str(a[5]).some THEN CmdErr("InvalidArgument", a[5])
    ELSE IF ~ParseU64(as_str(a[5]).s).ok THEN CmdErr("InvalidArgument", a[5])
    ELSE LET expiry_key == as_str(a[4]).s
             n == ParseU64(as_str(a[5]).s).n
             set(ex) == CmdOk(MkCommand("Set", as_str(a[2]).s, as_str(a[3]).s, FALSE, ex))
         IN IF eq_ignore_ascii_case(expiry_key, s_ex) THEN set(SomeExpiry("Time", "Seconds", n))
            ELSE IF eq_ignore_ascii_case(expiry_key, s_px) THEN set(SomeExpiry("Time", "Millis", n))
            ELSE IF eq_ignore_ascii_case(expiry_key, s_exat) THEN set(SomeExpiry("Unix", "Seconds", n))
            ELSE IF eq_ignore_ascii_case(expiry_key, s_pxat) THEN set(SomeExpiry("Unix", "Millis", n))
            ELSE CmdErr("InvalidArgument", a[4])

\* impl TryFrom<Value> for Command
try_from(value) ==
    IF value.t # "Array" THEN CmdErr("InvalidCommand", NoValue)
    ELSE LET a == value.a IN
    IF ~HasArg(a, 1) THEN CmdErr("InvalidCommand", NoValue)
    ELSE IF ~IsStr(a[1]) THEN CmdErr("InvalidCommand", NoValue)
    ELSE IF ~as_str(a[1]).some THEN CmdErr("InvalidCommand", NoValue)
    ELSE LET cmd == as_str(a[1]).s IN
    IF eq_ignore_ascii_case(cmd, s_ping) THEN
        IF ~HasArg(a, 2) THEN CmdOk(MkCommand("Ping", <<>>, <<>>, FALSE, NoExpiry))
        ELSE IF ~IsStr(a[2]) THEN CmdErr("InvalidArgument", a[2])
        ELSE CmdOk(MkCommand("Ping", StrOrEmpty(a[2]), <<>>, TRUE, NoExpiry))
    ELSE IF eq_ignore_ascii_case(cmd, s_echo) THEN
        IF ~HasArg(a, 2) THEN CmdErr("InvalidCommand", NoValue)
        ELSE IF ~IsStr(a[2]) THEN CmdErr("InvalidArgument", a[2])
        ELSE CmdOk(MkCommand("Echo", StrOrEmpty(a[2]), <<>>, FALSE, NoExpiry))
    ELSE IF eq_ignore_ascii_case(cmd, s_set) THEN try_from_set(a)
    ELSE IF eq_ignore_ascii_case(cmd, s_get) THEN
        IF ~HasArg(a, 2) THEN CmdErr("Get.MissingKey", NoValue)
        ELSE IF ~as_str(a[2]).some THEN CmdErr("InvalidArgument", a[2])
        ELSE CmdOk(MkCommand("Get", as_str(a[2]).s, <<>>, FALSE, NoExpiry))
    ELSE IF eq_ignore_ascii_case(cmd, s_info) THEN
        IF ~HasArg(a, 2) THEN CmdOk(MkCommand("Info", <<>>, <<>>, FALSE, NoExpiry))
        ELSE IF ~as_str(a[2]).some THEN CmdErr("InvalidArgument", a[2])
        ELSE CmdOk(MkCommand("Info", as_str(a[2]).s, <<>>, TRUE, NoExpiry))
    ELSE CmdErr("UnknownCommand", a[1])

-----------------------------------------------------------------------------
(* Time.  Instants and durations are in milliseconds.  The ranges of        *)
(* chrono's TimeDelta and DateTime are scaled down to MaxDelta and          *)
(* MaxInstant, so that expiry values outside them are within reach.         *)

MillisPerSec == 1000
\* TimeDelta::MAX and DateTime::<Utc>::MAX_UTC, scaled
MaxDelta == 8000
MaxInstant == 6000

\* impl Into<Duration> for Time
TimeIntoDuration(unit, n) == IF unit = "Seconds" THEN n * MillisPerSec ELSE n

\* a faulty into_utc, which takes the instant of EXAT and PXAT as a duration
\* from now
into_utc_relative(ex, t) ==
    LET d == TimeIntoDuration(ex.unit, ex.n) IN
    IF d > MaxDelta THEN [k |-> "none", t |-> 0]
    ELSE IF t + d > MaxInstant THEN [k |-> "panic", t |-> 0]
    ELSE [k |-> "some", t |-> t + d]

\* Expiry::into_utc at wall-clock time t: [k, t], k = "some", "none", or "panic"
\* (DateTime + TimeDelta overflowed)
into_utc(ex, t) ==
    LET d == TimeIntoDuration(ex.unit, ex.n) IN
    IF ex.kind = "Time" THEN
        IF d > MaxDelta THEN [k |-> "none", t |-> 0]
        ELSE IF t + d > MaxInstant THEN [k |-> "panic", t |-> 0]
        ELSE [k |-> "some", t |-> t + d]
    ELSE
        IF d > MaxInstant THEN [k |-> "none", t |-> 0] ELSE [k |-> "some", t |-> d]

-----------------------------------------------------------------------------
(* server::server: the string store *)

NoInstant == [some |-> FALSE, t |-> 0]
SomeInstant(t) == [some |-> TRUE, t |-> t]
StringEntry(value, expiry) == [value |-> value, expiry |-> expiry]

\* a faulty store, which keeps the value of a key already present
store_keep_value(m, key, value, expiry) ==
    IF key \in DOMAIN m
    THEN [m EXCEPT ![key] = StringEntry(m[key].value, expiry)]
    ELSE [k \in DOMAIN m \cup {key} |-> IF k = key THEN StringEntry(value, expiry) ELSE m[k]]

\* a faulty store, which keeps the expiry of the entry when the SET has none
store_merge_expiry(m, key, value, expiry) ==
    IF key \in DOMAIN m
    THEN [m EXCEPT ![key] = StringEntry(value, IF expiry.some THEN expiry ELSE m[key].expiry)]
    ELSE [k \in DOMAIN m \cup {key} |-> IF k = key THEN StringEntry(value, expiry) ELSE m[k]]

\* StringStore::store: the map afterwards
store(m, key, value, expiry) ==
    IF key \in DOMAIN m
    THEN [m EXCEPT ![key] = StringEntry(value, expiry)]
    ELSE [k \in DOMAIN m \cup {key} |-> IF k = key THEN StringEntry(value, expiry) ELSE m[k]]

\* a faulty try_get, which finds the empty string under an absent key
try_get_or_default(m, key, t) ==
    IF key \notin DOMAIN m THEN [some |-> TRUE, s |-> <<>>]
    ELSE LET entry == m[key]
             expired == IF entry.expiry.some THEN entry.expiry.t <= t ELSE FALSE
         IN IF expired THEN [some |-> FALSE, s |-> <<>>] ELSE [some |-> TRUE, s |-> entry.value]

\* a faulty try_get, for which an entry is still live at its expiry instant
try_get_late(m, key, t) ==
    IF key \notin DOMAIN m THEN [some |-> FALSE, s |-> <<>>]
    ELSE LET entry == m[key]
             expired == IF entry.expiry.some THEN entry.expiry.t < t ELSE FALSE
         IN IF expired THEN [some |-> FALSE, s |-> <<>>] ELSE [some |-> TRUE, s |-> entry.value]

\* StringStore::try_get with time() = t: [some, s]
try_get(m, key, t) ==
    IF key \notin DOMAIN m THEN [some |-> FALSE, s |-> <<>>]
    ELSE LET entry == m[key]
             expired == IF entry.expiry.some THEN entry.expiry.t <= t ELSE FALSE
         IN IF expired THEN [some |-> FALSE, s |-> <<>>] ELSE [some |-> TRUE, s |-> entry.value]

-----------------------------------------------------------------------------
(* server::role: the master and the replica *)

\* rand::distributions::Alphanumeric
Alphanumeric == Range(Digits) \cup Range(UpperChars) \cup Range(LowerChars)
\* ReplicationId([u8; 40])
ReplIdLen == 40
\* ReplicationId::random: the ids it may draw, here
ReplIds ==
    {[i \in 1..ReplIdLen |-> IF i % 2 = 1 THEN "a" ELSE "7"],
     [i \in 1..ReplIdLen |-> IF i % 3 = 0 THEN "Z" ELSE "q"]}

\* Master::new with the id drawn; Replica::of
Master_new(id) == [kind |-> "master", id |-> id, offset |-> 0]
Replica_of == [kind |-> "replica", id |-> <<>>, offset |-> 0]

\* format!("{key}:{value}")
Field(key, value) == key \o <<":">> \o value
\* a faulty info, with the offset before the id
Master_info_swapped(r) ==
    <<Field(<<"r", "o", "l", "e">>, <<"m", "a", "s", "t", "e", "r">>),
      Field(<<"m", "a", "s", "t", "e", "r", "_", "r", "e", "p", "l", "_", "o", "f", "f", "s", "e", "t">>, NatToStr(r.offset)),
      Field(<<"m", "a", "s", "t", "e", "r", "_", "r", "e", "p", "l", "i", "d">>, r.id)>>

\* impl Role for Master: info()
Master_info(r) ==
    <<Field(<<"r", "o", "l", "e">>, <<"m", "a", "s", "t", "e", "r">>),
      Field(<<"m", "a", "s", "t", "e", "r", "_", "r", "e", "p", "l", "i", "d">>, r.id),
      Field(<<"m", "a", "s", "t", "e", "r", "_", "r", "e", "p", "l", "_", "o", "f", "f", "s", "e", "t">>, NatToStr(r.offset))>>
\* impl Role for Replica: info()
Replica_info(r) == <<Field(<<"r", "o", "l", "e">>, <<"s", "l", "a", "v", "e">>)>>
Role_info(r) == IF r.kind = "master" THEN Master_info(r) ELSE Replica_info(r)

\* [String]::join
RECURSIVE join(_, _)
join(lines, sep) ==
    IF lines = <<>> THEN <<>>
    ELSE IF Len(lines) = 1 THEN lines[1]
    ELSE lines[1] \o sep \o join(Tail(lines), sep)

-----------------------------------------------------------------------------
(* Memora::handle_command on the store m at wall-clock time t:              *)
(* [k, resp, m, e], k = "ok" (Ok(resp)), "err" (Err(e)) or "panic".         *)

Handled(k, resp, m, e) == [k |-> k, resp |-> resp, m |-> m, e |-> e]

\* a faulty handler, whose GET removes the entry it finds expired
Memora_handle_command_evict(cmd, m, t) ==
    IF cmd.c = "Info" THEN
        LET section == IF cmd.opt THEN cmd.key ELSE s_default IN
        IF eq_ignore_ascii_case(section, s_replication)
        THEN Handled("ok", Bulk(join(Role_info(role), <<CR, LF>>)), m, "")
        ELSE Handled("err", NoValue, m, "Info.UnknownSection")
    ELSE IF cmd.c = "Set" THEN
        LET at == IF cmd.expiry.some THEN into_utc(cmd.expiry, t) ELSE [k |-> "some", t |-> 0] IN
        IF at.k # "some" THEN Handled("panic", NoValue, m, "invalid expiry time")
        ELSE Handled("ok", Simple(OK),
                     store(m, cmd.key, cmd.value,
                           IF cmd.expiry.some THEN SomeInstant(at.t) ELSE NoInstant), "")
    ELSE IF cmd.c = "Get" THEN
        LET value == try_get(m, cmd.key, t) IN
        Handled("ok", IF value.some THEN Bulk(value.s) ELSE NullBulk,
                IF value.some THEN m ELSE [k \in DOMAIN m \ {cmd.key} |-> m[k]], "")
    ELSE Handled("panic", NoValue, m, "todo")

Memora_handle_command(cmd, m, t) ==
    IF cmd.c = "Info" THEN
        LET section == IF cmd.opt THEN cmd.key ELSE s_default IN
        IF eq_ignore_ascii_case(section, s_replication)
        THEN Handled("ok", Bulk(join(Role_info(role), <<CR, LF>>)), m, "")
        ELSE Handled("err", NoValue, m, "Info.UnknownSection")
    ELSE IF cmd.c = "Set" THEN
        LET at == IF cmd.expiry.some THEN into_utc(cmd.expiry, t) ELSE [k |-> "some", t |-> 0] IN
        IF at.k # "some" THEN Handled("panic", NoValue, m, "invalid expiry time")
        ELSE Handled("ok", Simple(OK),
                     store(m, cmd.key, cmd.value,
                           IF cmd.expiry.some THEN SomeInstant(at.t) ELSE NoInstant), "")
    ELSE IF cmd.c = "Get" THEN
        LET value == try_get(m, cmd.key, t) IN
        Handled("ok", IF value.some THEN Bulk(value.s) ELSE NullBulk, m, "")
    ELSE Handled("panic", NoValue, m, "todo")

-----------------------------------------------------------------------------
(* The server: sessions (Session::run) and the actor (Memora::start).       *)

Sessions == {1, 2}
\* mpsc::channel(128)
ChanCap == 128
\* how many values the connections yield in all, how often the clock advances
MaxCmds == 3
MaxTicks == 2
\* by how much the clock advances at once
TickSteps == {1, 999}

\* the values the clients send
ClientValues ==
    {Array(<<Bulk(<<"P", "I", "N", "G">>)>>),
     Array(<<Bulk(<<"e", "c", "h", "o">>), Bulk(<<"a">>)>>),
     Array(<<Bulk(<<"S", "E", "T">>), Bulk(<<"k">>), Bulk(<<"w">>)>>),
     Array(<<Bulk(<<"S", "E", "T">>), Bulk(<<"j">>), Bulk(<<"v">>)>>),
     Array(<<Bulk(<<"S", "E", "T">>), Bulk(<<"k">>), Bulk(<<"v">>), Bulk(<<"E", "X">>), Bulk(<<"1">>)>>),
     Array(<<Bulk(<<"S", "E", "T">>), Bulk(<<"k">>), Bulk(<<"v">>), Bulk(<<"E", "X">>), Bulk(<<"9">>)>>),
     Array(<<Bulk(<<"G", "E", "T">>), Bulk(<<"k">>)>>),
     Array(<<Bulk(<<"I", "N", "F", "O">>), Bulk(<<"r", "e", "p", "l", "i", "c", "a", "t", "i", "o", "n">>)>>),
     Array(<<Bulk(<<"I", "N", "F", "O">>), Bulk(<<"f", "o", "o">>)>>),
     Array(<<Bulk(<<"G", "E", "T">>)>>)}

\* Command::try_from of each of them
Converted == [v \in ClientValues |-> try_from(v)]

Request(s, idx, cmd) == [sess |-> s, idx |-> idx, cmd |-> cmd]
NoOneshot == [st |-> "none", val |-> NoValue, from |-> 0, idx |-> 0]
Pending == [st |-> "pending", val |-> NoValue, from |-> 0, idx |-> 0]
Dropped == [st |-> "dropped", val |-> NoValue, from |-> 0, idx |-> 0]
\* the request was not queued, the channel being closed: its tx went with it
Refused == [st |-> "refused", val |-> NoValue, from |-> 0, idx |-> 0]
\* a Response in the oneshot, with the request it answers
Fulfilled(val, req) == [st |-> "sent", val |-> val, from |-> req.sess, idx |-> req.idx]
\* a reply written on a connection, named by the command it answers: command
\* idx of session from
Reply(from, idx) == [from |-> from, idx |-> idx]

NoneDone ==
    [valid |-> FALSE, sess |-> 0, idx |-> 0, cmd |-> NoCommand, t |-> 0, k |-> "",
     resp |-> NoValue, nresp |-> 0]

\* Memora::new: the store is empty, there is no session
MemoraInit ==
    /\ now = 0
    /\ ticks = 0
    /\ string = <<>>
    /\ chan = <<>>
    /\ sess = [s \in Sessions |-> "none"]
    /\ oneshot = [s \in Sessions |-> NoOneshot]
    /\ ncmd = [s \in Sessions |-> 0]
    /\ conv = [s \in Sessions |-> ""]
    /\ out = [s \in Sessions |-> <<>>]
    /\ done = NoneDone
    /\ lastSet = <<>>

\* a master: Master::start is ready at once and Memora::start is in its loop
ServerInit == MemoraInit /\ actor = "running"

\* the handshake: step the position in handshake, sent the requests written
\* to the master, got the values read from it, buf the read buffer of the
\* connection, err the HandshakeError, ev and at the last event on the
\* connection and the position it came at
Handshake(step) ==
    [step |-> step, sent |-> <<>>, got |-> <<>>, buf |-> <<>>, err |-> "", ev |-> "", at |-> ""]
\* main: the server is a master, Master::new draws its id; no handshake
NoHandshake == Handshake("none")
MasterInit ==
    /\ role \in {Master_new(id) : id \in ReplIds}
    /\ hs = NoHandshake

NoCall == [k |-> "idle", input |-> NoValue, conv |-> CmdErr("", NoValue),
           h |-> Handled("", NoValue, <<>>, "")]
CallInit == cmdcall = NoCall

\* no connection has been accepted
PoolInit ==
    pool = [reading |-> 0, sending |-> 0, queue |-> 0, answered |-> 0,
            accepted |-> 0, reads |-> 0, recvd |-> 0, replied |-> 0]

\* nothing has been encoded or parsed
NoParse == Res("", NoValue, 0, "", 0)
PureInit ==
    pcall = [fn |-> "none", v |-> NoValue, src |-> <<>>, p |-> parse_rest(<<>>, NoParse),
             c |-> CmdErr("", NoValue)]

\* dispatch::Command
DispatchCommand(name, args) == [name |-> name, args |-> args]
\* CommandHandlerInvoker::with_state: no handler is registered
DispatchInit ==
    registry = [invokers |-> <<>>, log |-> <<>>, called |-> FALSE,
                cmd |-> DispatchCommand("", <<>>), responses |-> <<>>]

\* no send has failed
IoInit == sendfail = [s \in Sessions |-> 0]

Init ==
    /\ CodecInit /\ ServerInit /\ MasterInit /\ CallInit /\ PoolInit /\ PureInit /\ DispatchInit
    /\ IoInit

RECURSIVE SumOver(_, _)
SumOver(f, S) == IF S = {} THEN 0 ELSE LET x == CHOOSE x \in S : TRUE IN f[x] + SumOver(f, S \ {x})
TotalCmds == SumOver(ncmd, Sessions)

\* the wall clock advances
Tick(d) ==
    /\ actor = "running"
    /\ ticks < MaxTicks
    /\ now' = now + d
    /\ ticks' = ticks + 1
    /\ UNCHANGED <<actor, string, chan, sess, oneshot, ncmd, conv, out, done, lastSet>>
    /\ UNCHANGED <<codecVars, roleVars, callVars, poolVars, pureVars, dispatchVars, ioVars>>

\* Memora::start, the accept arm: handle_connection spawns Session::run
Accept(s) ==
    /\ actor = "running"
    /\ sess[s] = "none"
    /\ sess' = [sess EXCEPT ![s] = "Reading"]
    /\ UNCHANGED <<now, ticks, actor, string, chan, oneshot, ncmd, conv, out, done, lastSet>>
    /\ UNCHANGED <<codecVars, roleVars, callVars, poolVars, pureVars, dispatchVars, ioVars>>

\* session tasks run while Memora::start is in its loop and, once it has
\* panicked or returned an error, until the runtime is shut down
SessionsRun == actor \in {"running", "panicked", "failed"}
\* the receiver of the request channel lives in Memora::start
ChannelOpen == actor = "running"

\* Session::run reads a value from its connection
Reads(s, v) ==
    /\ SessionsRun
    /\ sess[s] = "Reading"
    /\ TotalCmds < MaxCmds
    /\ v \in ClientValues
    /\ ncmd' = [ncmd EXCEPT ![s] = @ + 1]
    /\ conv' = [conv EXCEPT ![s] = Converted[v].e]

\* Session::run: Command::try_from failed; the error is logged
SessBadCommand(s, v) ==
    /\ Reads(s, v)
    /\ ~Converted[v].ok
    /\ UNCHANGED <<now, ticks, actor, string, chan, sess, oneshot, out, done, lastSet>>
    /\ UNCHANGED <<codecVars, roleVars, callVars, poolVars, pureVars, dispatchVars, ioVars>>

\* a faulty match, which answers only Ping in the session
ForwardsEcho(cmd) == cmd.c # "Ping"

\* Session::handle_command, the match on cmd: the arms Ping and Echo answer in
\* the session, the last arm forwards to the actor
Forwards(cmd) == cmd.c \notin {"Ping", "Echo"}

\* Session::run and handle_command, the Ping and Echo arms: the session
\* answers by itself
SessLocal(s, v) ==
    /\ Reads(s, v)
    /\ Converted[v].ok
    /\ ~Forwards(Converted[v].cmd)
    /\ out' = [out EXCEPT ![s] = Append(@, Reply(s, ncmd[s] + 1))]
    /\ UNCHANGED <<now, ticks, actor, string, chan, sess, oneshot, done, lastSet>>
    /\ UNCHANGED <<codecVars, roleVars, callVars, poolVars, pureVars, dispatchVars, ioVars>>

\* Session::handle_command, the last arm: the command goes to the actor and
\* the session awaits the oneshot
SessForward(s, v) ==
    /\ Reads(s, v)
    /\ Converted[v].ok
    /\ Forwards(Converted[v].cmd)
    /\ Len(chan) < ChanCap
    /\ chan' = IF ChannelOpen THEN Append(chan, Request(s, ncmd[s] + 1, Converted[v].cmd))
                              ELSE chan
    /\ oneshot' = [oneshot EXCEPT ![s] = IF ChannelOpen THEN Pending ELSE Refused]
    /\ sess' = [sess EXCEPT ![s] = "Awaiting"]
    /\ UNCHANGED <<now, ticks, actor, string, out, done, lastSet>>
    /\ UNCHANGED <<codecVars, roleVars, callVars, poolVars, pureVars, dispatchVars, ioVars>>

\* Session::handle_command: rx.await returned the Response; conn.send(resp)
SessReply(s) ==
    /\ SessionsRun
    /\ sess[s] = "Awaiting"
    /\ oneshot[s].st = "sent"
    /\ out' = [out EXCEPT ![s] = Append(@, Reply(oneshot[s].from, oneshot[s].idx))]
    /\ oneshot' = [oneshot EXCEPT ![s] = NoOneshot]
    /\ sess' = [sess EXCEPT ![s] = "Reading"]
    /\ UNCHANGED <<now, ticks, actor, string, chan, ncmd, conv, done, lastSet>>
    /\ UNCHANGED <<codecVars, roleVars, callVars, poolVars, pureVars, dispatchVars, ioVars>>

\* a faulty await, after which the session reads on when the sender is gone
recv_ignore(o) == "Reading"

\* Session::handle_command, `rx.await.unwrap()` and conn.send: the position of
\* the session afterwards, o being the state of the oneshot
recv_unwrap(o) == IF o.st = "sent" THEN "Reading" ELSE "Panicked"

\* Session::handle_command: rx.await returned Err (the sender was dropped);
\* unwrap aborts the session task
SessRecvError(s) ==
    /\ SessionsRun
    /\ sess[s] = "Awaiting"
    /\ oneshot[s].st \in {"dropped", "refused"}
    /\ sess' = [sess EXCEPT ![s] = recv_unwrap(oneshot[s])]
    /\ oneshot' = [oneshot EXCEPT ![s] = IF @.st = "refused" THEN @ ELSE NoOneshot]
    /\ UNCHANGED <<now, ticks, actor, string, chan, ncmd, conv, out, done, lastSet>>
    /\ UNCHANGED <<codecVars, roleVars, callVars, poolVars, pureVars, dispatchVars, ioVars>>

\* Session::run: conn.next() is None or Some(Err): the loop breaks
SessClose(s) ==
    /\ SessionsRun
    /\ sess[s] = "Reading"
    /\ sess' = [sess EXCEPT ![s] = "Terminated"]
    /\ UNCHANGED <<now, ticks, actor, string, chan, oneshot, ncmd, conv, out, done, lastSet>>
    /\ UNCHANGED <<codecVars, roleVars, callVars, poolVars, pureVars, dispatchVars, ioVars>>

\* Session::run, `if let Err(e) = res { error!(...) }`: where the loop is
\* when handle_command has returned res; the error is logged and the loop
\* goes on
run_after(res) == "Reading"

\* Session::handle_command: rx.await returned the Response and
\* `self.conn.send(resp).await?` failed with an I/O error
SessSendError(s) ==
    /\ SessionsRun
    /\ sess[s] = "Awaiting"
    /\ oneshot[s].st = "sent"
    /\ sendfail' = [sendfail EXCEPT ![s] = oneshot[s].idx]
    /\ oneshot' = [oneshot EXCEPT ![s] = NoOneshot]
    /\ sess' = [sess EXCEPT ![s] = run_after("err")]
    /\ UNCHANGED <<now, ticks, actor, string, chan, ncmd, conv, out, done, lastSet>>
    /\ UNCHANGED <<codecVars, roleVars, callVars, poolVars, pureVars, dispatchVars>>

\* Session::handle_command, the Ping and Echo arms: conn.send failed
SessLocalSendError(s, v) ==
    /\ Reads(s, v)
    /\ Converted[v].ok
    /\ ~Forwards(Converted[v].cmd)
    /\ sendfail' = [sendfail EXCEPT ![s] = ncmd[s] + 1]
    /\ sess' = [sess EXCEPT ![s] = run_after("err")]
    /\ UNCHANGED <<now, ticks, actor, string, chan, oneshot, out, done, lastSet>>
    /\ UNCHANGED <<codecVars, roleVars, callVars, poolVars, pureVars, dispatchVars>>

\* a faulty sink: the tx of the first session, whoever sent the request
ReplySinkOfFirst(req) == 1

\* a faulty sink: the tx of the newest request of the channel
ReplySinkOfNewest(req) == chan[Len(chan)].sess

\* the oneshot the actor sends the response of req into: req's own tx
ReplySink(req) == req.sess

\* a faulty handler, which counts the SETs in the replication offset
role_after_counting(r, cmd) == IF cmd.c = "Set" THEN [r EXCEPT !.offset = 1] ELSE r

\* Memora::handle_command: what it leaves in self.role (it only calls info())
role_after(r, cmd) == r

\* the receiver of the reply channel was dropped with its session
Closed == [st |-> "closed", val |-> NoValue, from |-> 0, idx |-> 0]

\* the task of a session is cancelled: its future is dropped, and with it the
\* connection and the receiver of the reply it may be awaiting
SessDropped(s) ==
    /\ SessionsRun
    /\ sess[s] \in {"Reading", "Awaiting"}
    /\ sess' = [sess EXCEPT ![s] = "Cancelled"]
    /\ oneshot' = [oneshot EXCEPT ![s] = IF @.st = "pending" THEN Closed ELSE NoOneshot]
    /\ UNCHANGED <<now, ticks, actor, string, chan, ncmd, conv, out, done, lastSet>>
    /\ UNCHANGED <<codecVars, roleVars, callVars, poolVars, pureVars, dispatchVars, ioVars>>

\* a faulty actor, which unwraps the result of tx.send
tx_send_unwrap(o) == IF o.st = "closed" THEN "panicked" ELSE "running"

\* Memora::start, `let _ = tx.send(resp)`: where it leaves the actor, o being
\* the reply channel; the Err of a send to a dropped receiver is discarded
tx_send(o) == "running"

\* a faulty channel, which hands out the newest request first
recv_newest(ch) == ch[Len(ch)]

\* reqs_rx.recv(): the request that has been in the channel the longest
recv(ch) == Head(ch)

\* Memora::start, the recv arm: the oldest request is executed and answered.
\* A panic unwinds Memora::start: the receiver and the requests still queued
\* are dropped, and their reply senders with them.
ActorRecv ==
    /\ actor = "running"
    /\ chan # <<>>
    /\ LET req == recv(chan)
           h == Memora_handle_command(req.cmd, string, now)
       IN /\ chan' = IF h.k = "panic" THEN <<>> ELSE Tail(chan)
          /\ string' = h.m
          /\ actor' = CASE h.k = "panic" -> "panicked"
                         [] h.k = "ok" -> tx_send(oneshot[ReplySink(req)])
                         [] OTHER -> "running"
          /\ oneshot' = CASE h.k = "ok" ->
                               [oneshot EXCEPT ![ReplySink(req)] =
                                   IF @.st = "closed" THEN @ ELSE Fulfilled(h.resp, req)]
                          [] h.k = "err" ->
                               [oneshot EXCEPT ![req.sess] =
                                   IF @.st = "closed" THEN @ ELSE Dropped]
                          [] OTHER -> [s \in Sessions |-> IF oneshot[s].st = "pending"
                                                            THEN Dropped ELSE oneshot[s]]
          /\ done' = [valid |-> TRUE, sess |-> req.sess, idx |-> req.idx, cmd |-> req.cmd,
                      t |-> now, k |-> h.k, resp |-> h.resp,
                      nresp |-> IF h.k = "ok" THEN 1 ELSE 0]
          /\ lastSet' = IF h.k = "ok" /\ req.cmd.c = "Set"
                        THEN [k \in DOMAIN lastSet \cup {req.cmd.key} |->
                                IF k = req.cmd.key
                                THEN [value |-> req.cmd.value, expiry |-> req.cmd.expiry,
                                      t |-> now,
                                      over |-> IF k \in DOMAIN string THEN string[k].expiry
                                                                      ELSE NoInstant]
                                ELSE lastSet[k]]
                        ELSE lastSet
          /\ role' = role_after(role, req.cmd)
    /\ UNCHANGED <<now, ticks, sess, ncmd, conv, out>>
    /\ UNCHANGED <<codecVars, hs, callVars, poolVars, pureVars, dispatchVars, ioVars>>

-----------------------------------------------------------------------------
(* The replica: Replica::start, handshake and replconf, then Memora::start  *)

\* the port the replica announces
port_text == <<"6", "3", "8", "0">>
\* Value::from_iter of bulk strings
BulkArray(words) == Array([i \in DOMAIN words |-> Bulk(words[i])])
HsPing == BulkArray(<<<<"P", "I", "N", "G">>>>)
replconf_request(args) == BulkArray(<<<<"R", "E", "P", "L", "C", "O", "N", "F">>>> \o args)
HsRequests ==
    <<HsPing,
      replconf_request(<<<<"l", "i", "s", "t", "e", "n", "i", "n", "g", "-", "p", "o", "r", "t">>, port_text>>),
      replconf_request(<<<<"c", "a", "p", "a">>, <<"p", "s", "y", "n", "c", "2">>>>)>>

\* what the master may write in answer to a request, as bytes
UpstreamReplies ==
    {<<"+", "P", "O", "N", "G", CR, LF>>, <<"+", "O", "K", CR, LF>>, <<"$", "2", CR, LF, "o", "k", CR, LF>>, <<"$", "-", "1", CR, LF>>, <<"*", "1", CR, LF, "+", "O", "K", CR, LF>>, <<"+", "N", "O", CR, LF>>, <<"O", "K", CR, LF>>, <<"-", "E", CR, LF>>}

\* main: the server is a replica; Memora::start awaits role.start()
ReplicaInit ==
    /\ CodecInit
    /\ MemoraInit
    /\ actor = "starting"
    /\ role = Replica_of
    /\ hs = Handshake("connect")
    /\ CallInit
    /\ PoolInit
    /\ PureInit
    /\ DispatchInit
    /\ IoInit

\* a faulty start, which enters the main loop whatever role.start() returned
start_regardless(result) == IF result = "panic" THEN "panicked" ELSE "running"

\* Memora::start, `self.role.start().await?`: where the task is afterwards
start_after_role(result) ==
    CASE result = "ok" -> "running"
      [] result = "err" -> "failed"
      [] OTHER -> "panicked"

\* handshake fails with HandshakeError e after the event ev; Replica::start
\* and Memora::start return the error
HsFail(e, ev) ==
    /\ hs' = [hs EXCEPT !.step = "failed", !.err = e, !.ev = ev, !.at = hs.step]
    /\ actor' = start_after_role("err")

\* handshake: TcpStream::connect
HsConnect(ok) ==
    /\ actor = "starting"
    /\ hs.step = "connect"
    /\ IF ok THEN hs' = [hs EXCEPT !.step = "send_ping"] /\ UNCHANGED actor
             ELSE HsFail("Io", "io")
    /\ UNCHANGED <<now, ticks, string, chan, sess, oneshot, ncmd, conv, out, done, lastSet>>
    /\ UNCHANGED <<codecVars, role, callVars, poolVars, pureVars, dispatchVars, ioVars>>

AfterSend(step) ==
    CASE step = "send_ping" -> "await_ping"
      [] step = "send_conf1" -> "await_conf1"
      [] step = "send_conf2" -> "await_conf2"
\* handshake and replconf: conn.send of the next request
HsSend(ok) ==
    /\ actor = "starting"
    /\ hs.step \in {"send_ping", "send_conf1", "send_conf2"}
    /\ IF ok THEN /\ hs' = [hs EXCEPT !.step = AfterSend(hs.step),
                                       !.sent = Append(@, HsRequests[Len(hs.sent) + 1])]
                  /\ UNCHANGED actor
             ELSE HsFail("Io", "io")
    /\ UNCHANGED <<now, ticks, string, chan, sess, oneshot, ncmd, conv, out, done, lastSet>>
    /\ UNCHANGED <<codecVars, role, callVars, poolVars, pureVars, dispatchVars, ioVars>>

\* a faulty check, which takes any response for OK
replconf_check_any(resp) == "ok"

\* replconf: the check of the response
replconf_check(resp) ==
    IF ~as_str(resp).some THEN "InvalidResponse"
    ELSE IF ~eq_ignore_ascii_case(as_str(resp).s, <<"o", "k">>) THEN "InvalidResponse"
    ELSE "ok"

\* conn.next() returned what decode returned, r
HsDecoded(r) ==
    IF r.k = "none" THEN
        hs' = [hs EXCEPT !.buf = r.buf, !.ev = "partial", !.at = hs.step] /\ UNCHANGED actor
    ELSE IF r.k = "err" THEN HsFail("Resp", "err")
    ELSE IF r.k = "panic" THEN
        /\ hs' = [hs EXCEPT !.step = "panicked", !.ev = "panic", !.at = hs.step]
        /\ actor' = start_after_role("panic")
    ELSE IF hs.step = "await_ping" THEN
        /\ hs' = [hs EXCEPT !.step = "send_conf1", !.got = Append(@, r.v), !.buf = r.buf,
                             !.ev = "val", !.at = hs.step]
        /\ UNCHANGED actor
    ELSE IF replconf_check(r.v) # "ok" THEN
        /\ hs' = [hs EXCEPT !.step = "failed", !.err = "InvalidResponse",
                             !.got = Append(@, r.v), !.buf = r.buf, !.ev = "val", !.at = hs.step]
        /\ actor' = start_after_role("err")
    ELSE
        /\ hs' = [hs EXCEPT !.step = IF hs.step = "await_conf1" THEN "send_conf2" ELSE "replied",
                             !.got = Append(@, r.v), !.buf = r.buf, !.ev = "val", !.at = hs.step]
        /\ UNCHANGED actor

\* handshake and replconf: conn.next(), bytes of the master arrive and are
\* decoded
HsRecv(bytes) ==
    /\ actor = "starting"
    /\ hs.step \in {"await_ping", "await_conf1", "await_conf2"}
    /\ HsDecoded(decode(hs.buf \o bytes))
    /\ UNCHANGED <<now, ticks, string, chan, sess, oneshot, ncmd, conv, out, done, lastSet>>
    /\ UNCHANGED <<codecVars, role, callVars, poolVars, pureVars, dispatchVars, ioVars>>

\* handshake and replconf: conn.next() when the master has closed: None, or
\* the error of decode_eof when bytes remain
HsClosed ==
    /\ actor = "starting"
    /\ hs.step \in {"await_ping", "await_conf1", "await_conf2"}
    /\ IF hs.buf = <<>> THEN HsFail("Closed", "closed") ELSE HsFail("Io", "closed")
    /\ UNCHANGED <<now, ticks, string, chan, sess, oneshot, ncmd, conv, out, done, lastSet>>
    /\ UNCHANGED <<codecVars, role, callVars, poolVars, pureVars, dispatchVars, ioVars>>

\* handshake returns Ok(conn); Replica::start drops the connection and returns
\* Ok(()); Memora::start creates the channel and enters its loop
HsComplete ==
    /\ actor = "starting"
    /\ hs.step = "replied"
    /\ hs' = [hs EXCEPT !.step = "done", !.got = <<>>, !.buf = <<>>, !.ev = "", !.at = ""]
    /\ actor' = start_after_role("ok")
    /\ UNCHANGED <<now, ticks, string, chan, sess, oneshot, ncmd, conv, out, done, lastSet>>
    /\ UNCHANGED <<codecVars, role, callVars, poolVars, pureVars, dispatchVars, ioVars>>

Next ==
    \/ \E d \in TickSteps : Tick(d)
    \/ \E s \in Sessions : Accept(s)
    \/ \E s \in Sessions, v \in ClientValues : SessBadCommand(s, v)
    \/ \E s \in Sessions, v \in ClientValues : SessLocal(s, v)
    \/ \E s \in Sessions, v \in ClientValues : SessForward(s, v)
    \/ \E s \in Sessions : SessReply(s)
    \/ \E s \in Sessions : SessRecvError(s)
    \/ \E s \in Sessions : SessClose(s)
    \/ ActorRecv

Spec == Init /\ [][Next]_vars

ReplicaNext ==
    \/ \E ok \in BOOLEAN : HsConnect(ok)
    \/ \E ok \in BOOLEAN : HsSend(ok)
    \/ \E bytes \in UpstreamReplies : HsRecv(bytes)
    \/ HsClosed
    \/ HsComplete
    \/ Next

ReplicaSpec == ReplicaInit /\ [][ReplicaNext]_vars

-----------------------------------------------------------------------------
(* The codec as functions: Value::encode on a value, Value::parse on the    *)
(* bytes it wrote or on bytes a peer may send, Command::try_from on the     *)
(* value parsed.                                                            *)

s_hey == <<"h", "e", "y">>
\* payloads that are non-empty runs of ASCII letters
AlphaPayloads == {<<"a">>, OK, s_echo, <<"E", "C", "H", "O">>, s_hey, <<"Z", "z">>}
\* arrays of bulk strings of such payloads
BulkArrays == {Array(a) : a \in SeqsUpTo({Bulk(s) : s \in AlphaPayloads}, MaxArrayLen)}
\* the values handed to Value::encode
EncodeValues ==
    EncodableValues \cup BulkArrays \cup {Simple(s) : s \in AlphaPayloads} \cup {NullStr}
\* bytes handed to Value::parse that no encoder wrote
RawInputs ==
    {<<"5", CR, LF>>, <<"-", "5", CR, LF>>, OK \o <<CR, LF>>, <<"a", "b", "c">>,
     <<"*", "1", CR, LF, "7", CR, LF>>, <<":", "1", CR, LF>>, <<"-">>, <<"+", "5", CR, LF>>,
     <<"$", "x", CR, LF>>, <<"*", "-", "1", CR, LF>>, <<"$", "-", "2", CR, LF>>, <<CR, LF>>,
     <<"*", "-", "3", CR, LF>>, <<"$", "-", "1", CR, LF, "a", "b", CR, LF>>,
     <<"*", "x", CR, LF>>, <<"$", "$", "1", CR, LF>>, <<"*", "+", "O", "K", CR, LF>>,
     <<"$", ":", CR, LF>>, <<"*", "1", CR, LF, "$", "-", "7", CR, LF>>}

\* Value::encode(v) into an empty buffer
ValueEncode(v) ==
    /\ pcall.fn = "none"
    /\ pcall' = [pcall EXCEPT !.fn = "encode", !.v = v, !.src = encode(v)]
    /\ UNCHANGED <<codecVars, serverVars, roleVars, callVars, poolVars, dispatchVars, ioVars>>

\* Value::parse on the bytes the encoder wrote
ParseEncoded ==
    /\ pcall.fn = "encode"
    /\ pcall' = [pcall EXCEPT !.fn = "parse", !.p = parse(pcall.src)]
    /\ UNCHANGED <<codecVars, serverVars, roleVars, callVars, poolVars, dispatchVars, ioVars>>

\* Value::parse on other bytes
ValueParse(src) ==
    /\ pcall.fn = "none"
    /\ pcall' = [pcall EXCEPT !.fn = "parse", !.src = src, !.p = parse(src)]
    /\ UNCHANGED <<codecVars, serverVars, roleVars, callVars, poolVars, dispatchVars, ioVars>>

\* Command::try_from on the value parsed
ConvertParsed ==
    /\ pcall.fn = "parse"
    /\ pcall.p.k = "val"
    /\ pcall' = [pcall EXCEPT !.fn = "conv", !.c = try_from(pcall.p.v)]
    /\ UNCHANGED <<codecVars, serverVars, roleVars, callVars, poolVars, dispatchVars, ioVars>>

ValueNext ==
    \/ \E v \in EncodeValues : ValueEncode(v)
    \/ ParseEncoded
    \/ \E src \in RawInputs : ValueParse(src)
    \/ ConvertParsed

ValueSpec == Init /\ [][ValueNext]_vars

-----------------------------------------------------------------------------
(* dispatch: CommandHandlerInvoker.  invokers maps a name to the handlers   *)
(* registered under it, in the order of their registration.                 *)

\* how many handlers are registered in all
MaxHandlers == 3

\* the names handlers are registered and commands are called under
HandlerNames == {"echo", "ECHO", "get"}
\* the handlers: the echo of the tests, converted from Echo(String), and a
\* handler whose argument conversion fails with Blah
Handlers == {"echo", "blah"}
s_test == <<"t", "e", "s", "t">>
\* the arguments of the commands called
HandlerArgs == {<<>>, <<Simple(s_test)>>, <<Bulk(<<"a">>), Simple(s_test)>>, <<NullBulk>>}

\* CommandHandler::handle: C::try_from(cmd.args), then the function on the
\* typed command, or the error as a value
handle(h, args) ==
    IF h = "echo"
    THEN IF args # <<>> /\ as_str(args[1]).some
         THEN Simple(as_str(args[1]).s)
         ELSE MkValue("Error", <<"E", "c", "h", "o">>, 0, <<>>)
    ELSE Simple(<<"l", "o", "l">>)

\* a faulty handles, which replaces the handlers registered under the name
handles_insert(inv, name, h) ==
    [n \in DOMAIN inv \cup {name} |-> IF n = name THEN <<h>> ELSE inv[n]]

\* CommandHandlerInvoker::handles: entry(name).or_default().push(service)
handles(inv, name, h) ==
    [n \in DOMAIN inv \cup {name} |->
        IF n = name THEN (IF name \in DOMAIN inv THEN Append(inv[name], h) ELSE <<h>>)
        ELSE inv[n]]

\* CommandHandlerInvoker::call: the responses of the invokers found under
\* cmd.name, in their order; none when the name has no entry
call(inv, cmd) ==
    IF cmd.name \in DOMAIN inv
    THEN [i \in 1..Len(inv[cmd.name]) |-> handle(inv[cmd.name][i], cmd.args)]
    ELSE <<>>

\* registry.handles(h.into_service(name))
Handles(name, h) ==
    /\ Len(registry.log) < MaxHandlers
    /\ registry' = [invokers |-> handles(registry.invokers, name, h),
                    log |-> Append(registry.log, [name |-> name, h |-> h]),
                    called |-> FALSE, cmd |-> DispatchCommand("", <<>>), responses |-> <<>>]
    /\ UNCHANGED <<codecVars, serverVars, roleVars, callVars, poolVars, pureVars, ioVars>>

\* registry.call(Command { name, args })
Call(name, args) ==
    /\ ~registry.called
    /\ registry' = [registry EXCEPT !.called = TRUE,
                                    !.cmd = DispatchCommand(name, args),
                                    !.responses = call(registry.invokers,
                                                       DispatchCommand(name, args))]
    /\ UNCHANGED <<codecVars, serverVars, roleVars, callVars, poolVars, pureVars, ioVars>>

DispatchNext ==
    \/ \E name \in HandlerNames, h \in Handlers : Handles(name, h)
    \/ \E name \in HandlerNames, args \in HandlerArgs : Call(name, args)

DispatchSpec == Init /\ [][DispatchNext]_vars

-----------------------------------------------------------------------------
(* The request channel under load.  Sessions are interchangeable, so the    *)
(* state is how many of them are at each position: reading in conn.next(),  *)
(* sending suspended in reqs_tx.send(req), with a request in the channel    *)
(* (queue), or with the response in their oneshot (answered).  Every value  *)
(* read is a command the session forwards.                                  *)

\* how many sessions there are beyond the capacity of the channel, and how
\* many requests the actor takes
PoolExtra == 2
MaxPoolRecv == 2
PoolSize == ChanCap + PoolExtra

\* a faulty channel, which has no bound
has_permit_unbounded(queued, waiting) == TRUE

\* mpsc::channel(128), Sender::send: a permit is free for a new sender when
\* the queued requests and the senders waiting for a permit leave room
has_permit(queued, waiting) == queued + waiting < ChanCap

\* Memora::start, the accept arm: handle_connection spawns Session::run
PoolAccept ==
    /\ pool.accepted < PoolSize
    /\ pool' = [pool EXCEPT !.accepted = @ + 1, !.reading = @ + 1]
    /\ UNCHANGED <<codecVars, serverVars, roleVars, callVars, pureVars, dispatchVars, ioVars>>

\* Session::run reads a value and handle_command forwards it: the request is
\* queued if a permit is free, else the session is suspended in send
PoolForward ==
    /\ pool.reading > 0
    /\ pool' = IF has_permit(pool.queue, pool.sending)
               THEN [pool EXCEPT !.reading = @ - 1, !.reads = @ + 1, !.queue = @ + 1]
               ELSE [pool EXCEPT !.reading = @ - 1, !.reads = @ + 1, !.sending = @ + 1]
    /\ UNCHANGED <<codecVars, serverVars, roleVars, callVars, pureVars, dispatchVars, ioVars>>

\* a suspended send completes: the actor's recv has released a permit to it
PoolResume ==
    /\ pool.sending > 0
    /\ pool.queue < ChanCap
    /\ pool' = [pool EXCEPT !.sending = @ - 1, !.queue = @ + 1]
    /\ UNCHANGED <<codecVars, serverVars, roleVars, callVars, pureVars, dispatchVars, ioVars>>

\* Memora::start, the recv arm: the oldest request is taken and answered
PoolRecv ==
    /\ pool.queue > 0
    /\ pool.recvd < MaxPoolRecv
    /\ pool' = [pool EXCEPT !.queue = @ - 1, !.answered = @ + 1, !.recvd = @ + 1]
    /\ UNCHANGED <<codecVars, serverVars, roleVars, callVars, pureVars, dispatchVars, ioVars>>

\* Session::handle_command: rx.await returned, the response is written and
\* Session::run reads again
PoolReply ==
    /\ pool.answered > 0
    /\ pool' = [pool EXCEPT !.answered = @ - 1, !.reading = @ + 1, !.replied = @ + 1]
    /\ UNCHANGED <<codecVars, serverVars, roleVars, callVars, pureVars, dispatchVars, ioVars>>

PoolNext ==
    \/ PoolAccept
    \/ PoolForward
    \/ PoolResume
    \/ PoolRecv
    \/ PoolReply

PoolSpec == Init /\ [][PoolNext]_vars

\* the server when session tasks may be cancelled
CancelNext ==
    \/ \E s \in Sessions : Accept(s)
    \/ \E s \in Sessions, v \in ClientValues : SessForward(s, v)
    \/ \E s \in Sessions : SessReply(s)
    \/ \E s \in Sessions : SessRecvError(s)
    \/ \E s \in Sessions : SessDropped(s)
    \/ ActorRecv

CancelSpec == Init /\ [][CancelNext]_vars

\* a faulty drop, which leaves the request and its reply sender in place
rx_dropped_kept(o) == o

\* reqs_rx is dropped with a request in it: the request's tx goes with it, o
\* being the oneshot of a session
rx_dropped(o) == IF o.st = "pending" THEN Dropped ELSE o

\* Memora::start, the accept arm: listener.accept() returned an error and
\* `conn?` returns it; the store and the receiver of the request channel are
\* dropped, the session tasks stay until main returns
AcceptError ==
    /\ actor = "running"
    /\ actor' = "failed"
    /\ chan' = <<>>
    /\ oneshot' = [s \in Sessions |-> rx_dropped(oneshot[s])]
    /\ UNCHANGED <<now, ticks, string, sess, ncmd, conv, out, done, lastSet>>
    /\ UNCHANGED <<codecVars, roleVars, callVars, poolVars, pureVars, dispatchVars, ioVars>>

\* the server when accept may fail
AcceptNext ==
    \/ \E s \in Sessions : Accept(s)
    \/ AcceptError
    \/ \E s \in Sessions, v \in ClientValues : SessForward(s, v)
    \/ \E s \in Sessions : SessReply(s)
    \/ \E s \in Sessions : SessRecvError(s)
    \/ ActorRecv

AcceptSpec == Init /\ [][AcceptNext]_vars

\* the server when writes on the connections may fail
IoNext ==
    \/ \E s \in Sessions : Accept(s)
    \/ \E s \in Sessions, v \in ClientValues : SessLocal(s, v)
    \/ \E s \in Sessions, v \in ClientValues : SessLocalSendError(s, v)
    \/ \E s \in Sessions, v \in ClientValues : SessForward(s, v)
    \/ \E s \in Sessions : SessReply(s)
    \/ \E s \in Sessions : SessSendError(s)
    \/ \E s \in Sessions : SessRecvError(s)
    \/ \E s \in Sessions : SessClose(s)
    \/ ActorRecv

IoSpec == Init /\ [][IoNext]_vars

-----------------------------------------------------------------------------
(* The server under commands whose expiry is absolute or zero *)

\* the values the clients send: SET k with no expiry, with a zero duration,
\* with an instant in the past or at most a second ahead; GET k; INFO
ExpiryValues ==
    {BulkArray(<<s_set, <<"k">>, <<"v">>>>),
     BulkArray(<<s_set, <<"k">>, <<"w">>, s_ex, <<"0">>>>),
     BulkArray(<<s_set, <<"k">>, <<"w">>, s_px, <<"0">>>>),
     BulkArray(<<s_set, <<"k">>, <<"w">>, s_exat, <<"0">>>>),
     BulkArray(<<s_set, <<"k">>, <<"v">>, s_exat, <<"1">>>>),
     BulkArray(<<s_set, <<"k">>, <<"w">>, s_pxat, <<"1", "0", "0", "0">>>>),
     BulkArray(<<s_get, <<"k">>>>),
     BulkArray(<<s_info, s_replication>>)}

\* Command::try_from of each of them
ExpiryConverted == [v \in ExpiryValues |-> try_from(v)]

\* Session::run reads the value v, a command that handle_command forwards to
\* the actor, and awaits the oneshot
SessForwardExpiry(s, v) ==
    /\ SessionsRun
    /\ sess[s] = "Reading"
    /\ TotalCmds < MaxCmds
    /\ ExpiryConverted[v].ok
    /\ Forwards(ExpiryConverted[v].cmd)
    /\ Len(chan) < ChanCap
    /\ ChannelOpen
    /\ ncmd' = [ncmd EXCEPT ![s] = @ + 1]
    /\ conv' = [conv EXCEPT ![s] = ""]
    /\ chan' = Append(chan, Request(s, ncmd[s] + 1, ExpiryConverted[v].cmd))
    /\ oneshot' = [oneshot EXCEPT ![s] = Pending]
    /\ sess' = [sess EXCEPT ![s] = "Awaiting"]
    /\ UNCHANGED <<now, ticks, actor, string, out, done, lastSet>>
    /\ UNCHANGED <<codecVars, roleVars, callVars, poolVars, pureVars, dispatchVars, ioVars>>

ExpiryNext ==
    \/ \E d \in {MillisPerSec} : Tick(d)
    \/ \E s \in Sessions : Accept(s)
    \/ \E s \in Sessions, v \in ExpiryValues : SessForwardExpiry(s, v)
    \/ \E s \in Sessions : SessReply(s)
    \/ ActorRecv

ExpirySpec == Init /\ [][ExpiryNext]_vars

\* the server with the select of Memora::start scheduled fairly: the select
\* polls its ready arms in random order, so the recv arm is taken when it
\* stays ready.  The accept of a connection whose client sends nothing
\* changes no variable: connections that keep arriving are stuttering steps.
LiveNext ==
    \/ \E s \in Sessions : Accept(s)
    \/ \E s \in Sessions, v \in ClientValues : SessForward(s, v)
    \/ \E s \in Sessions : SessReply(s)
    \/ \E s \in Sessions : SessRecvError(s)
    \/ ActorRecv

LiveSpec == Init /\ [][LiveNext]_vars /\ WF_vars(ActorRecv)

\* Session::run on this connection: where `let Some(Ok(value)) =
\* self.conn.next().await else { break }` leaves the session
run_position(f) ==
    CASE f = "open" -> "Reading"
      [] f \in {"error", "closed"} -> "Terminated"
      [] OTHER -> "Panicked"

CodecNext ==
    \/ \E v \in EncodableValues \cup CommandValues : PeerSend(v)
    \/ \E n \in 1..Len(wire) : SocketRead(n)
    \/ \E k \in 0..Len(wire) : PeerClose(k)
    \/ SocketEof
    \/ FramedDecode

CodecSpec == Init /\ [][CodecNext]_vars

-----------------------------------------------------------------------------
-----------------------------------------------------------------------------
(* The framed transport when the peer writes bytes no encoder of the        *)
(* repository writes: bulk frames whose payload is not one token of the     *)
(* declared length                                                          *)

\* how many bytes the peer writes in all
MaxRawBytes == 13

\* a payload longer than declared; a payload of the declared length that the
\* lexer splits (letters then digits, a leading zero); the same as the first
\* element of an array
MismatchFrames ==
    {<<"$", "1", CR, LF, "a", "b", CR, LF>>,
     <<"$", "2", CR, LF, "a", "1", CR, LF>>,
     <<"$", "2", CR, LF, "0", "1", CR, LF>>,
     <<"$", "1", CR, LF, "1", "2", CR, LF>>,
     <<"*", "1", CR, LF, "$", "2", CR, LF, "k", "1", CR, LF>>}
\* what the peer writes after it
ExtensionFrames == {<<"+", "O", "K", CR, LF>>, <<"$", "1", CR, LF>>}

\* the peer writes bytes onto the stream
PeerWrite(bytes) ==
    /\ fstate = "open"
    /\ eof = "no"
    /\ bytes \in (IF nread + Len(wire) = 0 THEN MismatchFrames ELSE ExtensionFrames)
    /\ nread + Len(wire) + Len(bytes) <= MaxRawBytes
    /\ wire' = wire \o bytes
    /\ UNCHANGED <<sent, buf, readable, yielded, fstate, last, eof, nread>>
    /\ UNCHANGED <<serverVars, roleVars, callVars, poolVars, pureVars, dispatchVars, ioVars>>

RawNext ==
    \/ \E bytes \in MismatchFrames \cup ExtensionFrames : PeerWrite(bytes)
    \/ \E n \in 1..Len(wire) : SocketRead(n)
    \/ \E k \in 0..Len(wire) : PeerClose(k)
    \/ SocketEof
    \/ FramedDecode

RawSpec == Init /\ [][RawNext]_vars

(* Command::try_from and Memora::handle_command, one value at a time *)

ToUpper(c) ==
    IF c \in Range(LowerChars)
    THEN UpperChars[CHOOSE i \in DOMAIN LowerChars : LowerChars[i] = c]
    ELSE c
\* every upper/lower-case permutation of a lower-case word
RECURSIVE CasePerms(_)
CasePerms(w) ==
    IF w = <<>> THEN {<<>>}
    ELSE {<<c>> \o r : c \in {w[1], ToUpper(w[1])}, r \in CasePerms(Tail(w))}

ExpiryKeywords == CasePerms(s_ex) \cup CasePerms(s_px) \cup CasePerms(s_exat) \cup CasePerms(s_pxat)
Sections ==
    {s_replication, [i \in DOMAIN s_replication |-> ToUpper(s_replication[i])],
     <<"R">> \o Tail(s_replication),
     s_default, [i \in DOMAIN s_default |-> ToUpper(s_default[i])],
     <<"f", "o", "o">>}
\* words in the place of the expiry keyword of a SET
OptionWords == {s_ex, <<"P", "x">>, s_exat, <<"P", "X", "A", "T">>, <<"N", "X">>, <<"f", "o", "o">>, <<"e">>, <<>>}
\* the values handed to Command::try_from
CallValues ==
    {Array(<<Bulk(n)>>) : n \in CasePerms(s_ping) \cup CasePerms(s_info)}
    \cup {Array(<<Simple(n)>>) : n \in CasePerms(s_ping)}
    \cup {Array(<<Bulk(n), Bulk(<<"a">>)>>) : n \in CasePerms(s_echo) \cup CasePerms(s_get)}
    \cup {Array(<<Bulk(n), Bulk(<<"k">>), Bulk(<<"v">>)>>) : n \in CasePerms(s_set)}
    \cup {Array(<<Bulk(n), Bulk(<<"k">>), Bulk(<<"v">>), Bulk(kw), Bulk(<<"1">>)>>) :
            n \in {s_set, <<"S", "E", "T">>, <<"S", "e", "t">>}, kw \in ExpiryKeywords}
    \cup {Array(<<Bulk(n), Bulk(sec)>>) : n \in {s_info, <<"I", "N", "F", "O">>}, sec \in Sections}
    \cup {Array(<<Bulk(s_set), Bulk(<<"k">>), Bulk(<<"v">>), Bulk(opt)>> \o rest) :
            opt \in OptionWords, rest \in {<<>>, <<Bulk(<<"1">>)>>, <<Bulk(<<"x">>)>>}}

\* Command::try_from(v)
Convert(v) ==
    /\ cmdcall.k = "idle"
    /\ cmdcall' = [k |-> "conv", input |-> v, conv |-> try_from(v), h |-> NoCall.h]
    /\ UNCHANGED <<codecVars, serverVars, roleVars, poolVars, pureVars, dispatchVars, ioVars>>

\* Memora::handle_command on the command, when it is one a session forwards
Execute ==
    /\ cmdcall.k = "conv"
    /\ cmdcall.conv.ok
    /\ Forwards(cmdcall.conv.cmd)
    /\ cmdcall' = [cmdcall EXCEPT !.k = "exec",
                                   !.h = Memora_handle_command(cmdcall.conv.cmd, string, now)]
    /\ string' = Memora_handle_command(cmdcall.conv.cmd, string, now).m
    /\ role' = role_after(role, cmdcall.conv.cmd)
    /\ UNCHANGED <<now, ticks, actor, chan, sess, oneshot, ncmd, conv, out, done, lastSet>>
    /\ UNCHANGED <<codecVars, hs, poolVars, pureVars, dispatchVars, ioVars>>

CmdNext ==
    \/ \E v \in CallValues : Convert(v)
    \/ Execute

CmdSpec == Init /\ [][CmdNext]_vars

-----------------------------------------------------------------------------
(* Properties of the server, checked under Spec *)

\* the last request the actor executed was a GET
GotKey == done.valid /\ done.cmd.c = "Get"
\* ... of a key whose last executed SET is recorded
GotSetKey == GotKey /\ done.cmd.key \in DOMAIN lastSet
LastSetOfGot == lastSet[done.cmd.key]

\* C1: after the actor has executed SET k v without an expiry, every GET k it
\* executes before another SET k, from any session and whatever was executed
\* on other keys in between, is answered Bulk(v).
SetGetNoExpiry ==
    (GotSetKey /\ ~LastSetOfGot.expiry.some)
        => (done.k = "ok" /\ done.nresp = 1 /\ done.resp = Bulk(LastSetOfGot.value))

\* a GET k answered from a SET k without expiry, with a SET of another key
\* executed too, the clock having advanced since the SET k
SetGetNoExpiryWitness ==
    /\ GotSetKey
    /\ ~LastSetOfGot.expiry.some
    /\ done.resp = Bulk(LastSetOfGot.value)
    /\ done.t > LastSetOfGot.t
    /\ \E j \in DOMAIN lastSet : j # done.cmd.key

\* the last GET was of a key last SET with EX n: the instant t + n of that SET
GotRelativeSeconds ==
    /\ GotSetKey
    /\ LastSetOfGot.expiry.some
    /\ LastSetOfGot.expiry.kind = "Time"
    /\ LastSetOfGot.expiry.unit = "Seconds"
Deadline == LastSetOfGot.t + LastSetOfGot.expiry.n * MillisPerSec

\* C2, as claimed: after SET k v EX n executed at time t and no later SET k, a
\* GET k executed at t' <= t + n is answered Bulk(v), at t' = t + n too, and a
\* GET k executed at t' > t + n is answered the null bulk.
TtlLiveThroughDeadline ==
    GotRelativeSeconds =>
        /\ done.t <= Deadline => done.resp = Bulk(LastSetOfGot.value)
        /\ done.t > Deadline => done.resp = NullBulk

\* C2, amended: after SET k v EX n executed at time t and no later SET k, a
\* GET k executed at t' < t + n is answered Bulk(v), and a GET k executed at
\* t' >= t + n, at t' = t + n too, is answered the null bulk.
TtlExpiredAtDeadline ==
    GotRelativeSeconds =>
        /\ done.t < Deadline => done.resp = Bulk(LastSetOfGot.value)
        /\ done.t >= Deadline => done.resp = NullBulk

\* a GET k executed exactly at the deadline of the SET k v EX n before it
TtlAtDeadlineWitness ==
    /\ GotRelativeSeconds
    /\ done.t = Deadline
    /\ done.resp = NullBulk

\* C3: on every connection the replies appear in the order of the commands
\* they answer: each reply answers a command of that connection, and a later
\* command than the reply before it.
PerConnectionOrder ==
    \A s \in Sessions : \A i \in DOMAIN out[s] :
        /\ out[s][i].from = s
        /\ out[s][i].idx <= ncmd[s]
        /\ i > 1 => out[s][i - 1].idx < out[s][i].idx

\* one connection has two replies, one of them from the actor, while another
\* connection has been answered too
PerConnectionOrderWitness ==
    \E s \in Sessions, u \in Sessions :
        /\ s # u
        /\ Len(out[s]) >= 2
        /\ out[u] # <<>>
        /\ done.valid /\ done.k = "ok"

\* C4: for every request the actor takes from the channel, it sends exactly
\* one Response into the request's reply sink.
ExactlyOneResponse == done.valid => done.nresp = 1

\* C8: when Command::try_from fails, the session sends a reply for that
\* value (the error) before it is back in Reading.
ParseErrorAnswered ==
    \A s \in Sessions :
        (sess[s] = "Reading" /\ conv[s] # "")
            => (out[s] # <<>> /\ out[s][Len(out[s])].idx = ncmd[s])

\* C9: no command-level error ends a session: a session whose command failed
\* in the actor is not aborted.
CommandErrorKeepsSession ==
    \A s \in Sessions : (done.valid /\ done.sess = s /\ done.k = "err") => sess[s] # "Panicked"

\* C10: executing a forwarded command never ends the actor's main loop.
ActorSurvivesCommands == done.valid => actor = "running"

-----------------------------------------------------------------------------
(* Properties of the codec, checked under CodecSpec *)

IsPrefix(a, b) == Len(a) <= Len(b) /\ a = SubSeq(b, 1, Len(a))
\* the whole stream the peer has written so far
Stream == Concat([i \in DOMAIN sent |-> encode(sent[i])])

\* C5: parsing the whole encoding of a value V returns V and consumes every
\* byte of it.
CodecRoundTrip ==
    (last.k # "idle" /\ last.pre = 0 /\ last.input = encode(sent[1]))
        => (last.k = "val" /\ last.v = sent[1] /\ last.left = <<>>)

\* C6: parsing a strict prefix of the encoding of a value never returns an
\* error.
PrefixNeverError ==
    (/\ last.k # "idle"
     /\ last.pre = 0
     /\ Len(last.input) < Len(encode(sent[1]))
     /\ IsPrefix(last.input, encode(sent[1])))
        => last.k # "err"

\* C7: once every byte of the stream has been read and decoded, the values
\* yielded are those that repeated decode yields on the whole stream, however
\* the socket reads split it.
ChunkingIndependence ==
    (wire = <<>> /\ (~readable \/ fstate # "open")) => yielded = DecodeAll(Stream, <<>>)

-----------------------------------------------------------------------------
(* Properties of INFO and of the command names *)

\* the command handed to Memora::handle_command in the last call was an INFO
ExecutedInfo == cmdcall.k = "exec" /\ cmdcall.conv.cmd.c = "Info"

\* C11: INFO with no section, or with the section "default", is answered as
\* INFO replication is: the Bulk of the lines of role.info() joined by CRLF,
\* and not an UnknownSection error.
InfoDefaultAnswered ==
    (ExecutedInfo /\ (~cmdcall.conv.cmd.opt \/ cmdcall.conv.cmd.key = s_default))
        => (cmdcall.h.k = "ok" /\ cmdcall.h.resp = Bulk(join(Role_info(role), <<CR, LF>>)))

\* the lines of a text, CRLF being the separator
CrlfAt(text) == {i \in 1..(Len(text) - 1) : text[i] = CR /\ text[i + 1] = LF}
FirstCrlf(text) == CHOOSE i \in CrlfAt(text) : \A j \in CrlfAt(text) : i <= j
RECURSIVE split_crlf(_)
split_crlf(text) ==
    IF CrlfAt(text) = {} THEN <<text>>
    ELSE <<SubSeq(text, 1, FirstCrlf(text) - 1)>>
         \o split_crlf(SubSeq(text, FirstCrlf(text) + 2, Len(text)))
\* line is pre followed by a text of which every character is in S, n of
\* them (any number, one at least, when n = 0)
IsField(line, pre, S, n) ==
    /\ IsPrefix(pre, line)
    /\ Len(line) > Len(pre)
    /\ n > 0 => Len(line) = Len(pre) + n
    /\ \A i \in (Len(pre) + 1)..Len(line) : line[i] \in S
IsMasterInfo(lines) ==
    /\ Len(lines) = 3
    /\ lines[1] = <<"r", "o", "l", "e", ":", "m", "a", "s", "t", "e", "r">>
    /\ IsField(lines[2], <<"m", "a", "s", "t", "e", "r", "_", "r", "e", "p", "l", "i", "d", ":">>, Alphanumeric, 40)
    /\ IsField(lines[3], <<"m", "a", "s", "t", "e", "r", "_", "r", "e", "p", "l", "_", "o", "f", "f", "s", "e", "t", ":">>, Range(Digits), 0)

\* C12: on a master, every reply to INFO replication, whatever the case of
\* the section, is a Bulk of exactly three lines separated by CRLF, in this
\* order: role:master, master_replid:<40 alphanumeric characters>,
\* master_repl_offset:<decimal>.
InfoReplicationThreeLines ==
    (ExecutedInfo /\ cmdcall.conv.cmd.opt /\ LowerStr(cmdcall.conv.cmd.key) = s_replication)
        => (/\ cmdcall.h.k = "ok"
            /\ cmdcall.h.resp.t = "Bulk"
            /\ IsMasterInfo(split_crlf(cmdcall.h.resp.s)))

\* INFO with the section in another case than "replication" has been answered
InfoReplicationWitness ==
    /\ ExecutedInfo
    /\ cmdcall.conv.cmd.opt
    /\ LowerStr(cmdcall.conv.cmd.key) = s_replication
    /\ cmdcall.conv.cmd.key # s_replication
    /\ cmdcall.h.k = "ok"

\* the last request the actor executed was an INFO replication
InfoDone ==
    /\ done.valid
    /\ done.cmd.c = "Info"
    /\ done.cmd.opt
    /\ LowerStr(done.cmd.key) = s_replication

\* C13: the master's replication id and offset are those of its construction
\* for ever: no step changes the role, the offset is 0, and every INFO
\* replication reply the actor gives reports that id and that offset.
ReplIdStable ==
    /\ [](InfoDone => (/\ done.k = "ok"
                       /\ role.offset = 0
                       /\ done.resp = Bulk(join(Master_info(role), <<CR, LF>>))))
    /\ [][role' = role]_vars

\* an INFO replication answered after a SET and a GET were executed
ReplIdStableWitness ==
    /\ InfoDone
    /\ done.k = "ok"
    /\ lastSet # <<>>
    /\ \E s \in Sessions : Len(out[s]) >= 2

\* the value with its command name in lower case and, in a SET, its expiry
\* keyword too
LowerNames(v) ==
    IF v.t # "Array" \/ v.a = <<>> \/ ~as_str(v.a[1]).some THEN v
    ELSE Array([i \in DOMAIN v.a |->
            IF as_str(v.a[i]).some /\ (i = 1 \/ (i = 4 /\ LowerStr(v.a[1].s) = s_set))
            THEN MkValue(v.a[i].t, LowerStr(v.a[i].s), 0, <<>>)
            ELSE v.a[i]])

\* C14: whatever the case of the letters of a command name (PING, ECHO, SET,
\* GET, INFO) and of an expiry keyword (EX, PX, EXAT, PXAT), Command::try_from
\* gives the typed Command it gives for the lower-case name and keyword with
\* the same arguments.
CommandCaseInsensitive ==
    (cmdcall.k # "idle" /\ try_from(LowerNames(cmdcall.input)).ok)
        => cmdcall.conv = try_from(LowerNames(cmdcall.input))

\* a SET with an expiry, name and keyword not in lower case, has converted
CommandCaseWitness ==
    /\ cmdcall.k # "idle"
    /\ cmdcall.input.a[1].s # LowerStr(cmdcall.input.a[1].s)
    /\ cmdcall.conv.ok
    /\ cmdcall.conv.cmd.c = "Set"
    /\ cmdcall.conv.cmd.expiry.some
    /\ cmdcall.input.a[4].s # LowerStr(cmdcall.input.a[4].s)

-----------------------------------------------------------------------------
(* Properties of the replica's start, checked under ReplicaSpec *)

\* the value is the string OK, simple or bulk, in any case
IsOkReply(v) == v.t \in {"Simple", "Bulk"} /\ LowerStr(v.s) = <<"o", "k">>
InHandshake == hs.step \notin {"none", "done"}

\* C15: Replica::start sends the master exactly PING, REPLCONF listening-port
\* <port>, REPLCONF capa psync2, in this order, each request after the first
\* only when a response value to the one before has been read; and it
\* completes only when the responses to both REPLCONF were OK.
HandshakeOrder ==
    /\ [](hs.step # "none" =>
            /\ Len(hs.sent) <= Len(HsRequests)
            /\ hs.sent = SubSeq(HsRequests, 1, Len(hs.sent))
            /\ InHandshake => Len(hs.sent) <= Len(hs.got) + 1
            /\ hs.step \in {"replied", "done"} => hs.sent = HsRequests)
    /\ [][(hs'.step = "done" /\ hs.step # "done") =>
            (/\ Len(hs.got) = 3
             /\ IsOkReply(hs.got[2])
             /\ IsOkReply(hs.got[3]))]_vars

\* the handshake has completed, the three requests sent
HandshakeOrderWitness == hs.step = "done" /\ hs.sent = HsRequests /\ actor = "running"

\* the last event on the connection to the master came at a REPLCONF step and
\* was a close, an I/O error, a protocol error or a response that is not OK
BadReplconfEvent ==
    /\ hs.at \in {"send_conf1", "await_conf1", "send_conf2", "await_conf2"}
    /\ \/ hs.ev \in {"closed", "io", "err", "panic"}
       \/ hs.ev = "val" /\ ~IsOkReply(hs.got[Len(hs.got)])

\* C16: a close, an I/O error, a protocol error or a response other than OK
\* at a REPLCONF step makes the handshake fail with a HandshakeError, which
\* Memora::start returns; no later request is sent.
ReplconfFailureIsError ==
    BadReplconfEvent =>
        /\ hs.step = "failed"
        /\ hs.err \in {"Io", "Resp", "Closed", "InvalidResponse"}
        /\ actor = "failed"
        /\ Len(hs.sent) = CASE hs.at = "send_conf1" -> 1
                             [] hs.at \in {"await_conf1", "send_conf2"} -> 2
                             [] OTHER -> 3

\* C17: until role.start() has completed successfully, and for ever when it
\* fails, Memora::start is not in its main loop: no connection is accepted,
\* no session runs, no request is in a channel and no command has touched
\* the store.
StartupOrder ==
    /\ [](InHandshake =>
            /\ actor # "running"
            /\ chan = <<>>
            /\ string = <<>>
            /\ ~done.valid
            /\ \A s \in Sessions : sess[s] = "none" /\ ncmd[s] = 0 /\ out[s] = <<>>)
    /\ [][hs.step \in {"failed", "panicked"} => hs'.step = hs.step]_vars

\* the handshake has completed and the actor has executed a command
StartupOrderWitness == hs.step = "done" /\ done.valid /\ \E s \in Sessions : out[s] # <<>>

-----------------------------------------------------------------------------
(* Properties of the sessions and the request channel, checked under Spec *)

\* C18: PING and ECHO are answered by the session itself: no Request on the
\* channel carries Ping or Echo, the actor executes none (its catch-all
\* branch is not reached), and a session that reads a command and does not
\* wait for the actor writes the reply in that very step, whatever the actor
\* and the channel are doing.
PingEchoLocal ==
    /\ [](/\ \A i \in DOMAIN chan : chan[i].cmd.c \in {"Info", "Set", "Get"}
          /\ done.valid => done.cmd.c \in {"Info", "Set", "Get"})
    /\ [][\A s \in Sessions :
            (ncmd'[s] = ncmd[s] + 1 /\ conv'[s] = "" /\ sess'[s] = "Reading")
                => (out'[s] = Append(out[s], Reply(s, ncmd'[s])) /\ chan' = chan)]_vars

\* a session has been answered while a request of the other one waits on
\* the channel and the actor has executed nothing yet
PingEchoLocalWitness ==
    /\ chan # <<>>
    /\ ~done.valid
    /\ \E s \in Sessions :
        /\ sess[s] = "Reading"
        /\ out[s] # <<>>
        /\ out[s][Len(out[s])].idx = ncmd[s]

\* C19: a session that forwards a command when the request channel is closed
\* is ended by it: it writes no reply for the command, reads no further
\* value, and its only step is the end of its task.
ClosedChannelIsFatal ==
    /\ [](\A s \in Sessions : oneshot[s].st = "refused" =>
            /\ sess[s] \in {"Awaiting", "Panicked"}
            /\ \A i \in DOMAIN out[s] : out[s][i].idx < ncmd[s])
    /\ [][\A s \in Sessions : oneshot[s].st = "refused" =>
            /\ oneshot'[s].st = "refused"
            /\ ncmd'[s] = ncmd[s]
            /\ out'[s] = out[s]
            /\ sess'[s] \in {sess[s], "Panicked"}]_vars

\* a session has forwarded into the closed channel and its task has ended
ClosedChannelWitness ==
    \E s \in Sessions : oneshot[s].st = "refused" /\ sess[s] = "Panicked" /\ ~ChannelOpen

-----------------------------------------------------------------------------
(* Properties of the end of a connection, checked under CodecSpec *)

\* where the frames the peer encoded end in the stream
FrameEnds == {Len(Concat([i \in 1..j |-> encode(sent[i])])) : j \in 0..Len(sent)}
\* the end of the last frame that lies wholly within the first p bytes
LastFrameEnd(p) == CHOOSE b \in FrameEnds : b <= p /\ \A c \in FrameEnds : c <= p => c <= b

\* C20: a peer close or a decode error ends the session (Terminated), and no
\* partial frame becomes a command: a value that converts to a Command was
\* decoded from bytes of frames that had arrived whole.
CloseEndsSession ==
    /\ ((eof = "seen" /\ ~readable /\ last.k # "panic") \/ last.k = "err")
            => run_position(fstate) = "Terminated"
    /\ (last.k = "val" /\ try_from(last.v).ok)
            => last.upto - Len(last.left) <= LastFrameEnd(last.upto)

-----------------------------------------------------------------------------
(* Properties of the actor and of the request channel, checked under Spec *)

\* C21: the store changes only in a step in which the actor executes the SET
\* at the head of the channel; the actor takes one request per step, the
\* oldest of the channel, and the reply and the store it leaves are those of
\* Memora::handle_command applied to that request alone on the store the
\* previous request left: the run equals the sequential execution of the
\* requests in the order they were dequeued.
SingleWriter ==
    [][(string' # string \/ done' # done \/ Len(chan') < Len(chan))
         => /\ chan # <<>>
            /\ chan' \in {Tail(chan), <<>>}
            /\ done'.sess = Head(chan).sess /\ done'.idx = Head(chan).idx
            /\ done'.cmd = Head(chan).cmd
            /\ string' = Memora_handle_command(Head(chan).cmd, string, now).m
            /\ done'.k = Memora_handle_command(Head(chan).cmd, string, now).k
            /\ done'.resp = Memora_handle_command(Head(chan).cmd, string, now).resp
            /\ (done'.k = "ok" => oneshot'[Head(chan).sess].val = done'.resp)
            /\ (string' # string => Head(chan).cmd.c = "Set")
            /\ \A s \in Sessions : sess'[s] = sess[s] /\ out'[s] = out[s]]_vars

\* two sessions have requests in the channel at once, and the actor has
\* executed the older one, a SET
SingleWriterWitness ==
    /\ done.valid /\ done.cmd.c = "Set" /\ done.k = "ok"
    /\ string # <<>>
    /\ chan # <<>>
    /\ Head(chan).sess # done.sess
    /\ oneshot[done.sess].st = "sent"

\* the oldest request of the channel comes from a session that has since
\* dropped its reply receiver
HeadReceiverGone == chan # <<>> /\ oneshot[Head(chan).sess].st = "closed"

\* C22: when the actor has a reply to send (the handler returned Ok) and the
\* session of the request has dropped the reply receiver, the command has
\* taken effect on the store as for any request (a SET is stored), nothing is
\* sent to anyone, the actor stays in its loop and the next request is at
\* the head of the channel.
DroppedReceiverDiscarded ==
    [][(HeadReceiverGone /\ done' # done /\ done'.k = "ok")
         => /\ string' = Memora_handle_command(Head(chan).cmd, string, now).m
            /\ (Head(chan).cmd.c = "Set"
                   => /\ Head(chan).cmd.key \in DOMAIN string'
                      /\ string'[Head(chan).cmd.key].value = Head(chan).cmd.value)
            /\ actor' = "running"
            /\ chan' = Tail(chan)
            /\ oneshot' = oneshot
            /\ out' = out /\ sess' = sess]_vars

\* session 1 was cancelled while it awaited the reply to its only command, a
\* SET; the actor stored the value all the same and has since answered the
\* GET of session 2 with it
DroppedReceiverWitness ==
    /\ sess[1] = "Cancelled" /\ oneshot[1].st = "closed" /\ ncmd[1] = 1
    /\ ncmd[2] = 1 /\ done.valid /\ done.sess = 2 /\ done.cmd.c = "Get"
    /\ done.resp = Bulk(<<"w">>)
    /\ actor = "running"

-----------------------------------------------------------------------------
(* Properties of the request channel under load, checked under PoolSpec *)

\* C23: the channel never holds more than 128 requests; a session suspended
\* in send has read nothing since the value it is sending (every value read
\* is replied to, queued, answered or held by a suspended session), and a
\* suspended send completes only when the actor has dequeued a request and
\* the channel has room.
ChannelBounded ==
    /\ [](/\ pool.queue <= ChanCap
          /\ pool.reads = pool.replied + pool.answered + pool.queue + pool.sending
          /\ pool.accepted = pool.reading + pool.answered + pool.queue + pool.sending)
    /\ [][pool'.sending < pool.sending
            => /\ pool.queue < ChanCap /\ pool.recvd > 0
               /\ pool'.reads = pool.reads
               /\ pool'.queue = pool.queue + 1]_vars
    /\ [][pool'.sending > pool.sending => pool.queue + pool.sending >= ChanCap]_vars

\* the channel was full with a session suspended in send; the actor has
\* dequeued a request and the suspended send has completed
ChannelBoundedWitness ==
    /\ pool.queue = ChanCap
    /\ pool.sending = 1
    /\ pool.recvd = MaxPoolRecv
    /\ pool.reads = ChanCap + MaxPoolRecv + 1

-----------------------------------------------------------------------------
(* Properties of the store, checked under Spec *)

\* the last GET was of a key whose last SET had no expiry and replaced an
\* entry that had one
GotOverwritten == GotSetKey /\ ~LastSetOfGot.expiry.some /\ LastSetOfGot.over.some

\* C24: SET replaces the whole entry: the entry of a key holds the value of
\* the last SET of the key and has an expiry exactly when that SET had one;
\* a GET of a key whose last SET had no expiry and replaced an entry with an
\* expiry is answered Bulk of the new value at any time, also at or after
\* the instant the replaced entry would have expired; every SET the actor
\* executes successfully is answered +OK.
SetReplacesEntry ==
    /\ \A k \in DOMAIN lastSet :
          /\ k \in DOMAIN string
          /\ string[k].value = lastSet[k].value
          /\ string[k].expiry.some = lastSet[k].expiry.some
    /\ GotOverwritten => done.resp = Bulk(LastSetOfGot.value)
    /\ (done.valid /\ done.cmd.c = "Set" /\ done.k = "ok")
          => (done.resp = Simple(OK) /\ done.nresp = 1)

\* SET k v EX 1, then SET k w, then GET k executed when the expiry instant
\* of the first SET has passed: it is answered w
SetReplacesEntryWitness ==
    /\ GotOverwritten
    /\ done.t >= LastSetOfGot.over.t
    /\ done.resp = Bulk(<<"w">>)

\* the instant at which the entry of a SET executed at time t expires: t plus
\* the duration for EX and PX, the instant given for EXAT and PXAT
ExpiryInstant(set) ==
    IF set.expiry.kind = "Time"
    THEN set.t + (IF set.expiry.unit = "Seconds" THEN set.expiry.n * MillisPerSec
                                                  ELSE set.expiry.n)
    ELSE IF set.expiry.unit = "Seconds" THEN set.expiry.n * MillisPerSec ELSE set.expiry.n

\* C25: a GET k the actor executes at time now is answered the null bulk
\* exactly when no SET k was executed before it or the last SET k had an
\* expiry whose instant is <= now; in every other case it is answered Bulk
\* of the value of the last SET k.
GetNullExactly ==
    GotKey =>
        /\ done.k = "ok" /\ done.nresp = 1
        /\ done.resp =
              IF \/ done.cmd.key \notin DOMAIN lastSet
                 \/ (LastSetOfGot.expiry.some /\ ExpiryInstant(LastSetOfGot) <= done.t)
              THEN NullBulk
              ELSE Bulk(LastSetOfGot.value)

\* a GET of a key never SET, executed when another key is stored and the
\* clock has advanced: it is answered the null bulk
GetNullExactlyWitness ==
    /\ GotKey
    /\ done.cmd.key \notin DOMAIN lastSet
    /\ lastSet # <<>>
    /\ done.t > 0
    /\ done.resp = NullBulk

-----------------------------------------------------------------------------
(* Properties of the buffer of the framed transport, checked under CodecSpec *)

\* the bytes the last decode call removed from the buffer, as offsets of the
\* stream: those after ConsumedFrom up to ConsumedTo
ConsumedFrom == last.upto - Len(last.input)
ConsumedTo == last.upto - Len(last.left)

\* a decode call that returned None or an error leaves the buffer as it was
PartialConsumesNothing == last.k \in {"none", "err"} => last.left = last.input

\* C26: a decode call that reports insufficient input or an error leaves the
\* buffer byte for byte as it was; bytes are removed only when a complete
\* value is returned (the frame it was decoded from had arrived whole), and
\* the bytes removed are bytes of that one frame.
ConsumeNothingOnPartial ==
    /\ PartialConsumesNothing
    /\ last.k = "val" =>
          /\ ConsumedTo <= LastFrameEnd(last.upto)
          /\ \A b \in FrameEnds : ~(ConsumedFrom < b /\ b < ConsumedTo)

-----------------------------------------------------------------------------
(* Properties of the encoder and of the parser as functions, checked under  *)
(* ValueSpec                                                                *)

\* C27: the parser is total: on every byte string Value::parse returns a
\* value with the remainder, insufficient input, or an error; it does not
\* abort, in particular not on input whose first token is an integer or a
\* run of letters.
ParserTotal == pcall.fn \in {"parse", "conv"} => pcall.p.k \in {"val", "none", "err"}

\* the format the values are to be written in: *<len> CRLF and the elements
\* in order; $<length> CRLF payload CRLF; $-1 CRLF; +text CRLF
RECURSIVE Format(_)
Format(v) ==
    CASE v.t = "Array" ->
            <<"*">> \o NatToStr(Len(v.a)) \o <<CR, LF>> \o Concat([i \in DOMAIN v.a |-> Format(v.a[i])])
      [] v.t = "Bulk" -> <<"$">> \o NatToStr(Len(v.s)) \o <<CR, LF>> \o v.s \o <<CR, LF>>
      [] v.t \in {"NullBulk", "Null"} -> <<"$", "-", "1", CR, LF>>
      [] v.t = "Simple" -> <<"+">> \o v.s \o <<CR, LF>>
      [] OTHER -> <<>>
\* values made of arrays and strings only
RECURSIVE OfStrings(_)
OfStrings(v) ==
    IF v.t = "Array" THEN \A i \in DOMAIN v.a : OfStrings(v.a[i])
    ELSE v.t \in {"Bulk", "NullBulk", "Null", "Simple"}
EchoHey == Array(<<Bulk(s_echo), Bulk(s_hey)>>)
EchoHeyBytes ==
    <<"*", "2", CR, LF, "$", "4", CR, LF, "e", "c", "h", "o", CR, LF,
      "$", "3", CR, LF, "h", "e", "y", CR, LF>>

\* C28: Value::encode writes an array as *<len> CRLF and then each element
\* in order, a non-null bulk string s as $<length of s> CRLF s CRLF, a null
\* bulk or null string as $-1 CRLF and a simple string s as +s CRLF;
\* Array[Bulk echo, Bulk hey] is written *2 CRLF $4 CRLF echo CRLF $3 CRLF
\* hey CRLF.
EncoderFormat ==
    /\ (pcall.fn # "none" /\ pcall.v # NoValue /\ OfStrings(pcall.v))
          => pcall.src = Format(pcall.v)
    /\ (pcall.fn # "none" /\ pcall.v = EchoHey) => pcall.src = EchoHeyBytes

\* the array [echo, hey] has been encoded to the bytes of the repository's
\* test
EncoderFormatWitness ==
    /\ pcall.fn = "encode"
    /\ pcall.v = EchoHey
    /\ pcall.src = EchoHeyBytes

\* an array of bulk strings whose payloads are non-empty runs of letters
IsAlphaRun(s) == s # <<>> /\ \A i \in DOMAIN s : IsAlpha(s[i])
IsBulkArray(v) ==
    /\ v.t = "Array"
    /\ \A i \in DOMAIN v.a : v.a[i].t = "Bulk" /\ IsAlphaRun(v.a[i].s)

\* C29: the encoding of an array of n >= 0 bulk strings whose payloads are
\* non-empty runs of letters parses to the array of those n bulk strings in
\* order, the encoding +s CRLF of a simple string of letters parses to
\* Simple(s), and the array [echo, msg] then converts to Command::Echo(msg).
ParseBulkArrays ==
    /\ (pcall.fn \in {"parse", "conv"} /\ IsBulkArray(pcall.v))
          => (pcall.p.k = "val" /\ pcall.p.v = pcall.v)
    /\ (pcall.fn \in {"parse", "conv"} /\ pcall.v.t = "Simple" /\ IsAlphaRun(pcall.v.s))
          => (pcall.p.k = "val" /\ pcall.p.v = Simple(pcall.v.s))
    /\ (/\ pcall.fn = "conv" /\ IsBulkArray(pcall.v) /\ Len(pcall.v.a) >= 2
        /\ LowerStr(pcall.v.a[1].s) = s_echo)
          => pcall.c = CmdOk(MkCommand("Echo", pcall.v.a[2].s, <<>>, FALSE, NoExpiry))

\* the array [echo, hey] was encoded, parsed back as itself and converted to
\* Echo(hey)
ParseBulkArraysWitness ==
    /\ pcall.fn = "conv"
    /\ pcall.v = EchoHey
    /\ pcall.p.v = EchoHey
    /\ pcall.c.ok /\ pcall.c.cmd.c = "Echo" /\ pcall.c.cmd.key = s_hey

-----------------------------------------------------------------------------
(* Properties of the dispatcher, checked under DispatchSpec *)

\* the registrations made under a name, in their order
RegisteredUnder(name) ==
    LET Named(e) == e.name = name IN SelectSeq(registry.log, Named)

\* C30: CommandHandlerInvoker::call returns one response per handler
\* registered under a name equal to the command's name, in the order of
\* registration, each the result of that handler on the command's
\* arguments; it returns the empty list when no handler is registered under
\* that name.
CallOnePerHandler ==
    registry.called =>
        /\ Len(registry.responses) = Len(RegisteredUnder(registry.cmd.name))
        /\ \A i \in 1..Len(registry.responses) :
              registry.responses[i] =
                  handle(RegisteredUnder(registry.cmd.name)[i].h, registry.cmd.args)
        /\ ((\A i \in 1..Len(registry.log) : registry.log[i].name # registry.cmd.name)
               => registry.responses = <<>>)

\* two different handlers are registered under echo and a third under
\* another name; the command echo was called and answered by the two, in
\* their order
CallOnePerHandlerWitness ==
    /\ registry.called
    /\ registry.cmd = DispatchCommand("echo", <<Simple(s_test)>>)
    /\ registry.responses = <<Simple(s_test), Simple(<<"l", "o", "l">>)>>
    /\ \E i \in 1..Len(registry.log) : registry.log[i].name = "ECHO"

-----------------------------------------------------------------------------
(* Properties of the lengths the parser reads, checked under ValueSpec *)

\* the first two tokens of the bytes parsed
FirstToken == NextToken(pcall.src, 1)
LengthToken == NextToken(pcall.src, FirstToken.p)
Parsed == pcall.fn \in {"parse", "conv"}
FailsWith(e, n) == pcall.p.k = "err" /\ pcall.p.e = e /\ pcall.p.n = n

\* C31: an array length L < 0, -1 too, fails with InvalidLength(L); a bulk
\* length -1 is the null bulk and no payload token is consumed (the remainder
\* starts right after the length); a bulk length L < -1 fails with
\* InvalidLength(L); a token that is not an integer in the place of a length
\* fails with InvalidToken.
LengthValidation ==
    Parsed =>
        /\ (FirstToken.k = "Star" /\ LengthToken.k = "Int" /\ LengthToken.n < 0)
              => FailsWith("InvalidLength", LengthToken.n)
        /\ (FirstToken.k = "Dollar" /\ LengthToken.k = "Int" /\ LengthToken.n = -1)
              => /\ pcall.p.k = "val" /\ pcall.p.v = NullBulk
                 /\ pcall.p.rest = SubSeq(pcall.src, LengthToken.p, Len(pcall.src))
        /\ (FirstToken.k = "Dollar" /\ LengthToken.k = "Int" /\ LengthToken.n < -1)
              => FailsWith("InvalidLength", LengthToken.n)
        /\ (FirstToken.k \in {"Star", "Dollar"} /\ LengthToken.k \notin {"Int", "eof"})
              => FailsWith("InvalidToken", 0)

\* the bytes *-1 CRLF were parsed: InvalidLength(-1)
LengthValidationWitness ==
    /\ Parsed
    /\ pcall.src = <<"*", "-", "1", CR, LF>>
    /\ FailsWith("InvalidLength", -1)

-----------------------------------------------------------------------------
(* Properties of the expiry option of SET, checked under CmdSpec *)

\* the value converted is SET key value opt [n], its first four elements
\* strings
SetWithOption ==
    /\ cmdcall.k # "idle"
    /\ cmdcall.input.t = "Array"
    /\ Len(cmdcall.input.a) \in {4, 5}
    /\ \A i \in 1..4 : as_str(cmdcall.input.a[i]).some
    /\ LowerStr(cmdcall.input.a[1].s) = s_set
OptionIsKeyword == LowerStr(cmdcall.input.a[4].s) \in {s_ex, s_px, s_exat, s_pxat}

\* with a fifth element, an option that is no keyword is InvalidArgument; a
\* keyword without a fifth element is MissingExpiry
OptionWithValue ==
    SetWithOption =>
        /\ (Len(cmdcall.input.a) = 5 /\ ~OptionIsKeyword)
              => (~cmdcall.conv.ok /\ cmdcall.conv.e = "InvalidArgument")
        /\ (Len(cmdcall.input.a) = 4 /\ OptionIsKeyword)
              => (~cmdcall.conv.ok /\ cmdcall.conv.e = "Set.MissingExpiry")

\* C32: for SET key value opt [n], an opt that is a string and none of EX,
\* PX, EXAT, PXAT in any case makes Command::try_from fail with
\* InvalidArgument, with or without a further element; it fails with
\* MissingExpiry only when opt is one of the four keywords and nothing
\* follows it.
UnknownKeywordInvalid ==
    SetWithOption =>
        /\ ~OptionIsKeyword => (~cmdcall.conv.ok /\ cmdcall.conv.e = "InvalidArgument")
        /\ (~cmdcall.conv.ok /\ cmdcall.conv.e = "Set.MissingExpiry")
              => (OptionIsKeyword /\ Len(cmdcall.input.a) = 4)

-----------------------------------------------------------------------------
(* Properties of the write side of the connections, checked under IoSpec *)

\* C33: an I/O error while a session writes a reply ends the session: once a
\* send has failed the session is not in Reading again, reads no further
\* value and forwards no further request.
SendErrorEndsSession ==
    \A s \in Sessions :
        sendfail[s] > 0
            => /\ sess[s] \notin {"Reading", "Awaiting"}
               /\ ncmd[s] = sendfail[s]
               /\ \A i \in DOMAIN chan : chan[i].sess # s

-----------------------------------------------------------------------------
(* Properties of the store under expired entries, checked under ExpirySpec *)

\* the entry a SET leaves in the store
EntryOf(set) ==
    StringEntry(set.value,
                IF set.expiry.some THEN SomeInstant(ExpiryInstant(set)) ELSE NoInstant)

\* C34: no step removes a key from the store; a step in which the actor
\* executes a GET, of an expired key too, or an INFO leaves the store as it
\* was; the entry of a key, expired or not, is the one its last SET left.
NoEviction ==
    /\ [][DOMAIN string \subseteq DOMAIN string']_vars
    /\ [][(done' # done /\ done'.cmd.c \in {"Get", "Info"}) => string' = string]_vars
    /\ [](\A k \in DOMAIN lastSet : k \in DOMAIN string /\ string[k] = EntryOf(lastSet[k]))

\* a GET of an expired key was answered the null bulk and the entry is still
\* in the store; the session had been answered once before
NoEvictionWitness ==
    /\ GotSetKey
    /\ done.resp = NullBulk
    /\ done.cmd.key \in DOMAIN string
    /\ string[done.cmd.key].expiry.some
    /\ string[done.cmd.key].expiry.t <= done.t
    /\ Len(out[done.sess]) >= 1

\* the SET's expiry instant is not after the time it was executed at
ExpiresAtOnce(set) == set.expiry.some /\ ExpiryInstant(set) <= set.t

\* C37: a SET k v whose expiry is an instant (EXAT, PXAT) not after the
\* current time, or a duration of zero (EX 0, PX 0), is answered +OK and
\* replaces the entry of k, a live one too; every GET k executed before
\* another SET k is answered the null bulk.
ExpiredOnArrival ==
    /\ \A k \in DOMAIN lastSet :
          ExpiresAtOnce(lastSet[k]) => (k \in DOMAIN string /\ string[k] = EntryOf(lastSet[k]))
    /\ (GotSetKey /\ ExpiresAtOnce(LastSetOfGot))
          => (done.k = "ok" /\ done.nresp = 1 /\ done.resp = NullBulk)
    /\ (/\ done.valid /\ done.cmd.c = "Set"
        /\ ExpiresAtOnce([expiry |-> done.cmd.expiry, t |-> done.t]))
          => (done.k = "ok" /\ done.nresp = 1 /\ done.resp = Simple(OK))

\* a SET with an expiry in the past has replaced an entry that was live, and
\* a GET executed later was answered the null bulk
ExpiredOnArrivalWitness ==
    /\ GotSetKey
    /\ ExpiresAtOnce(LastSetOfGot)
    /\ LastSetOfGot.expiry.kind = "Unix"
    /\ LastSetOfGot.over.some /\ LastSetOfGot.over.t > LastSetOfGot.t
    /\ done.t > LastSetOfGot.t
    /\ done.resp = NullBulk

-----------------------------------------------------------------------------
(* Properties of the sessions' requests, checked under IoSpec *)

\* the places of the channel that hold a request of session s
QueuedOf(s) == {i \in DOMAIN chan : chan[i].sess = s}
LiveSessions == {s \in Sessions : sess[s] \in {"Reading", "Awaiting"}}

\* C35: a session has at most one request outstanding: the channel holds at
\* most one request of a session, that session is awaiting its oneshot and
\* has read no value since the one it forwarded; the reply in a oneshot is
\* the reply to the last value the session read; so the channel never holds
\* more requests than there are live sessions.
OneOutstanding ==
    /\ \A s \in Sessions :
          /\ Cardinality(QueuedOf(s)) <= 1
          /\ \A i \in QueuedOf(s) :
                /\ sess[s] = "Awaiting"
                /\ oneshot[s].st = "pending"
                /\ chan[i].idx = ncmd[s]
          /\ oneshot[s].st = "sent"
                => (sess[s] = "Awaiting" /\ oneshot[s].idx = ncmd[s] /\ QueuedOf(s) = {})
    /\ Len(chan) <= Cardinality(LiveSessions)

\* both sessions have a request in the channel at once, one of them its
\* second request, the first having been answered
OneOutstandingWitness ==
    /\ Len(chan) = 2
    /\ done.valid /\ done.k = "ok"
    /\ \E s \in Sessions : out[s] # <<>> /\ chan[2].sess = s /\ chan[2].idx = 2

-----------------------------------------------------------------------------
(* Liveness of the actor's loop, checked under LiveSpec *)

\* a request of session s is in the channel; the actor has executed the last
\* request of session s
Queued(s) == QueuedOf(s) # {}
Executed(s) == done.valid /\ done.sess = s /\ done.idx = ncmd[s]

\* every request in the channel is dequeued and executed in the end, unless
\* the actor has panicked on a request before it
ExecutedUnlessPanic == \A s \in Sessions : Queued(s) ~> (Executed(s) \/ actor = "panicked")

\* C36: with the select scheduled fairly, every request a session has placed
\* on the channel is dequeued and executed by the actor in the end, also
\* while connections keep arriving.
EveryRequestExecuted == \A s \in Sessions : Queued(s) ~> Executed(s)

-----------------------------------------------------------------------------
(* Properties of pipelined frames, checked under CodecSpec *)

\* a command frame: a non-empty array of bulk strings
IsCommandFrame(v) == v.t = "Array" /\ v.a # <<>> /\ \A i \in DOMAIN v.a : v.a[i].t = "Bulk"
\* a payload the lexer reads as one token of its own length: a run of letters
\* or a decimal number without a leading zero
IsOneToken(s) ==
    /\ s # <<>>
    /\ \/ \A i \in DOMAIN s : IsAlpha(s[i])
       \/ (\A i \in DOMAIN s : IsDigit(s[i])) /\ (s[1] = "0" => Len(s) = 1)
\* the peer has written two command frames and the last decode call had all
\* their bytes in the buffer or behind it
TwoFramesBuffered ==
    /\ Len(sent) = 2
    /\ IsCommandFrame(sent[1]) /\ IsCommandFrame(sent[2])
    /\ last.k # "idle"
    /\ last.upto = Len(Stream)
    /\ eof # "seen"
\* where the last token of the first frame ends in the stream
FirstFrameEnd == Len(encode(sent[1])) - 2

\* the successive decode calls yield the two frames in order; the first
\* removes the bytes up to the last token of the first frame, the second the
\* CRLF left behind and the second frame up to its last token
YieldedInOrder ==
    /\ last.pre = 0 => (last.k = "val" /\ last.v = sent[1] /\ ConsumedTo = FirstFrameEnd)
    /\ last.pre = 1 => (/\ last.k = "val" /\ last.v = sent[2]
                        /\ ConsumedFrom = FirstFrameEnd
                        /\ last.left = <<CR, LF>>)
    /\ last.pre = 2 => (last.k = "none" /\ yielded = sent)

\* the same for frames whose payloads the lexer reads as one token each
PipelinedOneToken ==
    (TwoFramesBuffered /\ \A j \in 1..2 : \A i \in DOMAIN sent[j].a : IsOneToken(sent[j].a[i].s))
        => YieldedInOrder

\* C38: when the buffer holds two complete command frames back to back, the
\* successive decode calls yield exactly those values in order; each call
\* removes the bytes of the value it returns up to its last token, and the
\* CRLF left behind is skipped as filler before the next frame without
\* changing the next value.
Pipelining == TwoFramesBuffered => YieldedInOrder

-----------------------------------------------------------------------------
(* Properties of bulk frames with a payload of another length, checked      *)
(* under RawSpec                                                            *)

\* where the bulk frame starts in b: at the first byte, or after the header
\* of an array of which it is the first element
BulkStart(b) ==
    IF NextToken(b, 1).k = "Star" /\ NextToken(b, NextToken(b, 1).p).k = "Int"
    THEN NextToken(b, NextToken(b, 1).p).p
    ELSE 1
\* d, l, t are the first tokens of the bulk frame: `$`, a length, and a
\* payload token whose text is longer than the length, or shorter and
\* followed by a byte, so that no further byte makes it longer
MismatchTokens(b, d, l, t) ==
    /\ d.k = "Dollar" /\ l.k = "Int" /\ l.n >= 0
    /\ t.k \in {"Int", "Str"}
    /\ \/ Len(TokenIntoString(t).s) > l.n
       \/ Len(TokenIntoString(t).s) < l.n /\ t.p <= Len(b)
MismatchFrom(b, d) == MismatchTokens(b, d, NextToken(b, d.p), NextToken(b, NextToken(b, d.p).p))
PayloadMismatch(b) == MismatchFrom(b, NextToken(b, BulkStart(b)))

-----------------------------------------------------------------------------
(* Properties of a failed accept, checked under AcceptSpec *)

\* session s has no reply to the last value it read
Unanswered(s) == \A i \in DOMAIN out[s] : out[s][i].idx < ncmd[s]

\* C40: an error of accept ends the actor's loop: Memora::start has returned
\* the error for good, the store changes no more and nothing is executed, the
\* channel holds nothing and takes nothing, and a session whose request was
\* in the channel or is forwarded afterwards gets no reply to it.
AcceptErrorEndsLoop ==
    /\ [](actor = "failed"
            => /\ chan = <<>>
               /\ \A s \in Sessions :
                     /\ oneshot[s].st # "pending"
                     /\ (sess[s] = "Panicked" \/ oneshot[s].st \in {"dropped", "refused"})
                           => Unanswered(s))
    /\ [][actor = "failed"
            => /\ actor' = "failed"
               /\ string' = string /\ done' = done /\ chan' = chan
               /\ \A s \in Sessions :
                     (ncmd'[s] > ncmd[s] /\ sess'[s] = "Awaiting") => oneshot'[s].st = "refused"]_vars

\* accept failed before the actor had executed anything: the session whose
\* request was in the channel and the session that forwarded one afterwards
\* have both ended without a reply
AcceptErrorWitness ==
    /\ actor = "failed"
    /\ ~done.valid
    /\ \E s \in Sessions, u \in Sessions :
          /\ sess[s] = "Panicked" /\ oneshot[s].st = "none" /\ ncmd[s] = 1 /\ out[s] = <<>>
          /\ sess[u] = "Panicked" /\ oneshot[u].st = "refused" /\ ncmd[u] = 1 /\ out[u] = <<>>

====
